---- MODULE Spec2Model ----
(***************************************************************************)
(* A model of solidquant/evm-simulation: the forked EVM harness            *)
(* (simulator.rs), the sandwich bundle simulator (sandwich.rs), the        *)
(* triangular arbitrage walk (arbitrage.rs, main.rs), the honeypot filter  *)
(* (honeypot.rs) and the mempool event handler (strategy.rs).              *)
(*                                                                         *)
(* Amounts are unsigned integers.  The chain state served by the fork      *)
(* backend (reserves, token behaviour, decimals) is an input: it is drawn  *)
(* from small sets so that every product stays inside TLC's integers.      *)
(***************************************************************************)
EXTENDS Integers, Sequences, FiniteSets, TLC

VARIABLES
    chain,      \* the pinned-block state the SharedBackend serves (never written)
    dbs,        \* heap of CacheDB objects: DbId -> writable cache
    live,       \* the DbIds that are allocated
    hdb,        \* EvmSimulator.evm.db of each harness: Harness -> DbId
    snap,       \* the CacheDB value returned by db_snapshot (NoDb: none held)
    snapCache,  \* ghost: the source's cache at the moment of db_snapshot
    snapView,   \* ghost: what the source harness read at that moment
    lastOp,     \* ghost: the operation the last step executed
    steps,      \* number of harness operations executed so far
    safe_token_info, \* HoneypotFilter.safe_token_info: address -> Token
    balance_slots,   \* HoneypotFilter.balance_slots: address -> slot index
    swIn,       \* SandwichSimulator::simulate's arguments: tx, sandwichable_pools
    swPc,       \* where simulate / the bundle under evaluation stands
    swTodo,     \* entries of sandwichable_pools the first loop has not visited
    sandwiches, \* the Vec<Sandwich> simulate builds
    bIdx,       \* index of the bundle under evaluation
    frontrun_out, \* simulate_sandwich_bundle's frontrun_out
    bLog,       \* ghost: the calls committed on the bundle's harness, in order
    results,    \* ghost: what simulate_sandwich_bundle returned, per sandwich
    arbIn,      \* main's arb_paths, amount_in and the Option fork_db it passes
    arbPc,      \* where main's loop / simulate_triangular_arbitrage stands
    arbIdx,     \* index of the path under evaluation
    arbHop,     \* n, the hop about to execute
    amount_out, \* simulate_triangular_arbitrage's amount_out
    arbLog,     \* ghost: the swaps committed by the call under evaluation
    arbResults, \* ghost: what each call returned, in the order of arb_paths
    new_block,  \* event_handler's new_block: NewBlock{block_number, base_fee, next_base_fee}
    verified_pools_map, \* event_handler's verified_pools_map: the pools it holds
    lastBlock,  \* ghost: the Block event most recently received (startup block if none)
    ev,         \* ghost: the event most recently received
    evOut,      \* ghost: what event_handler did with it
    evPc,       \* "recv" while the loop runs, "panicked" once the handler panicked
    token_info, \* HoneypotFilter.token_info: address -> Token
    honeypot,   \* HoneypotFilter.honeypot: address -> true
    hpIn,       \* filter_tokens' pools argument
    hpPc,       \* where filter_tokens stands
    hpIdx,      \* index of the pool under test
    hpOut,      \* out of the buy test of that pool
    hpLog,      \* ghost: the swaps filter_tokens ran, in order
    cacheFiles, \* the two csv files, each a sequence of rows
    suPc,       \* where HoneypotFilter::setup stands
    suLog,      \* ghost: per safe token visited, the trace and find_balance_slot's result
    busBuf,     \* the events the broadcast channel retains for event_handler's receiver
    busLagged,  \* events the receiver missed since its last recv()
    busSeq,     \* ghost: number of events the producers have sent
    busHead,    \* ghost: number of the last block the producers announced
    busJob,     \* the pending transaction event_handler is classifying
    busLog,     \* ghost: what event_handler did, in order
    prResp,     \* what each of the four storage probes answers
    prDone,     \* the probes join_next has yielded, in order
    prRet,      \* what get_implementation returned
    env,        \* evm.env.tx of one EvmSimulator
    envTx,      \* the mempool transaction that simulator is given
    envRan      \* ghost: per executed transaction, the environment it ran under

harnessVars == <<dbs, live, hdb, snap, snapCache, snapView, lastOp, steps>>

filterVars == <<safe_token_info, balance_slots>>

sandwichVars == <<swIn, swPc, swTodo, sandwiches, bIdx, frontrun_out, bLog, results>>

arbVars == <<arbIn, arbPc, arbIdx, arbHop, amount_out, arbLog, arbResults>>

eventVars == <<new_block, verified_pools_map, lastBlock, ev, evOut, evPc>>

honeyVars == <<token_info, honeypot, hpIn, hpPc, hpIdx, hpOut, hpLog, cacheFiles>>

setupVars == <<suPc, suLog>>

busVars == <<busBuf, busLagged, busSeq, busHead, busJob, busLog>>

proxyVars == <<prResp, prDone, prRet>>

envVars == <<env, envTx, envRan>>

vars == <<chain, harnessVars, filterVars, sandwichVars, arbVars, eventVars, honeyVars,
          setupVars, busVars, proxyVars, envVars>>

----------------------------------------------------------------------------
(* Bounds of the model *)

MaxSteps == 5       \* harness operations per behaviour of SpecHarness
MaxSlot == 1        \* balance-mapping slot indices 0..MaxSlot
MaxDb == 4          \* CacheDB objects alive at once

----------------------------------------------------------------------------
(* Addresses *)

SafeTokens == [usdt |-> "USDT", weth |-> "WETH", usdc |-> "USDC", dai |-> "DAI"]

SafeTokenSet == {SafeTokens.usdt, SafeTokens.weth, SafeTokens.usdc, SafeTokens.dai}

TestTokens == {"TKA", "TKB"}

Tokens == SafeTokenSet \cup TestTokens

\* the pool universe (token0, token1 of each pool)
PoolTokens ==
    [ P0 |-> <<"TKA", "WETH">>,
      P1 |-> <<"TKB", "WETH">>,
      P2 |-> <<"USDT", "WETH">>,
      P3 |-> <<"TKA", "USDT">>,
      P4 |-> <<"DAI", "WETH">>,
      P5 |-> <<"DAI", "USDT">>,
      P6 |-> <<"TKA", "TKB">> ]

Pools == DOMAIN PoolTokens

\* the pools the filter, the sandwich simulator and the event handler are given
ListedPools == {"P0", "P1", "P2", "P3"}

Pool(p) == [address |-> p, token0 |-> PoolTokens[p][1], token1 |-> PoolTokens[p][2]]

Accounts == {"owner", "simulator"}

Slots == 0 .. MaxSlot

\* keccak256(abi_encode(account, slot)): an injective function of the pair
BalKey(account, slot) == <<account, slot>>

\* the storage cells of the token contracts the model tracks
Cells == {<<t, BalKey("simulator", s)>> : t \in Tokens, s \in Slots}

----------------------------------------------------------------------------
(* CacheDB<SharedBackend>: a writable cache over the fork backend *)

Absent == -1
NoAcct == [balance |-> Absent, code |-> Absent]
NoRes == <<>>
NoDb == -1

DbIds == 0 .. (MaxDb - 1)

EmptyCache ==
    [ acct |-> [a \in Accounts |-> NoAcct],
      stor |-> [c \in Cells |-> Absent],
      res  |-> [p \in Pools |-> NoRes] ]

\* what the backend serves: accounts, token storage, pool reserves
BackendAcct(a) == [balance |-> 0, code |-> 0]
BackendStor(c) == 0
BackendRes(p) == chain.res[p]

ReadAcct(db, a) == IF db.acct[a] = NoAcct THEN BackendAcct(a) ELSE db.acct[a]
ReadStor(db, c) == IF db.stor[c] = Absent THEN BackendStor(c) ELSE db.stor[c]
ReadRes(db, p) == IF db.res[p] = NoRes THEN BackendRes(p) ELSE db.res[p]

\* everything a harness holding db reads: every account and every cell
View(db) ==
    [ acct |-> [a \in Accounts |-> ReadAcct(db, a)],
      stor |-> [c \in Cells |-> ReadStor(db, c)],
      res  |-> [p \in Pools |-> ReadRes(db, p)] ]

\* a cache whose present entries are laid over db
Overlay(db, part) ==
    [ acct |-> [a \in Accounts |-> IF part.acct[a] = NoAcct THEN db.acct[a] ELSE part.acct[a]],
      stor |-> [c \in Cells |-> IF part.stor[c] = Absent THEN db.stor[c] ELSE part.stor[c]],
      res  |-> [p \in Pools |-> IF part.res[p] = NoRes THEN db.res[p] ELSE part.res[p]] ]

\* the entries of db's view on the given accounts, cells and pools
Loaded(db, as, cs, ps) ==
    [ acct |-> [a \in Accounts |-> IF a \in as THEN ReadAcct(db, a) ELSE NoAcct],
      stor |-> [c \in Cells |-> IF c \in cs THEN ReadStor(db, c) ELSE Absent],
      res  |-> [p \in Pools |-> IF p \in ps THEN ReadRes(db, p) ELSE NoRes] ]

RECURSIVE Pow10(_)
Pow10(n) == IF n = 0 THEN 1 ELSE 10 * Pow10(n - 1)

----------------------------------------------------------------------------
(* The contracts the harness executes.  The pools and tokens are third     *)
(* party code on the chain; the simulator contract is the bytecode blob    *)
(* of constants.rs, modelled from its documented interface.                *)

\* Amounts are uint256 on the chain and their products do not overflow there.
\* Where a product exceeds the checker's machine word it is computed on the
\* digits of the numbers in base 10000, least significant first.
Digits(n) == <<n % 10000, (n \div 10000) % 10000, n \div 100000000>>

DigitAt(x, i) == IF i \in 1 .. Len(x) THEN x[i] ELSE 0

\* the digits of the number whose column sums are cols, with carry c
RECURSIVE Carry(_, _, _)
Carry(cols, i, c) ==
    IF i > Len(cols)
    THEN IF c = 0 THEN <<>> ELSE <<c % 10000>> \o Carry(cols, i, c \div 10000)
    ELSE <<(cols[i] + c) % 10000>> \o Carry(cols, i + 1, (cols[i] + c) \div 10000)

RECURSIVE ColumnSum(_, _, _, _)
ColumnSum(x, y, k, i) ==
    IF i > Len(x) THEN 0
    ELSE x[i] * DigitAt(y, k + 1 - i) + ColumnSum(x, y, k, i + 1)

WideMul(x, y) == Carry([k \in 1 .. (Len(x) + Len(y)) |-> ColumnSum(x, y, k, 1)], 1, 0)

WideAdd(x, y) ==
    Carry([k \in 1 .. (IF Len(x) > Len(y) THEN Len(x) ELSE Len(y)) |->
              DigitAt(x, k) + DigitAt(y, k)], 1, 0)

RECURSIVE WideLeqFrom(_, _, _)
WideLeqFrom(x, y, i) ==
    IF i = 0 THEN TRUE
    ELSE IF DigitAt(x, i) # DigitAt(y, i) THEN DigitAt(x, i) < DigitAt(y, i)
    ELSE WideLeqFrom(x, y, i - 1)

WideLeq(x, y) == WideLeqFrom(x, y, IF Len(x) > Len(y) THEN Len(x) ELSE Len(y))

\* the largest q in lo .. hi with q * den <= num (lo * den <= num is given)
RECURSIVE WideQuotient(_, _, _, _)
WideQuotient(num, den, lo, hi) ==
    IF lo = hi THEN lo
    ELSE LET mid == lo + ((hi - lo + 1) \div 2)
         IN  IF WideLeq(WideMul(Digits(mid), den), num)
             THEN WideQuotient(num, den, mid, hi)
             ELSE WideQuotient(num, den, lo, mid - 1)

\* (aIn * 997 * rOut) / (rIn * 1000 + aIn * 997), a quotient that is at most rOut
WideAmountOut(aIn, rIn, rOut) ==
    WideQuotient(WideMul(WideMul(Digits(aIn), Digits(997)), Digits(rOut)),
                 WideAdd(WideMul(Digits(rIn), Digits(1000)),
                         WideMul(Digits(aIn), Digits(997))),
                 0, rOut)

\* getAmountOut(aIn, rIn, rOut) of the simulator contract
GetAmountOut(aIn, rIn, rOut) ==
    IF rIn = 0 /\ aIn = 0 THEN 0
    ELSE IF aIn <= 2000000 /\ rIn <= 100000
            /\ (aIn = 0 \/ rOut <= 2147483647 \div (aIn * 997))
    THEN (aIn * 997 * rOut) \div (rIn * 1000 + aIn * 997)
    ELSE WideAmountOut(aIn, rIn, rOut)

\* what a transfer of amt of token t delivers (a transfer tax burns the rest)
AfterTax(t, amt) == amt - ((amt * chain.tax[t]) \div 100)

\* the cell balanceOf(simulator) of token t reads
BalCell(t) == <<t, BalKey("simulator", chain.slot[t])>>

NoWrites == EmptyCache

\* v2SimulateSwap(amountIn, pool, tokenIn, tokenOut) executed by the EVM on the
\* state db shows: status, the (expected, actual) pair, cells loaded, cells written
SwapExec(db, amount_in, p, tin, tout) ==
    LET accts == Loaded(db, Accounts, {}, {})
        rIn == IF tin = PoolTokens[p][1] THEN ReadRes(db, p)[1] ELSE ReadRes(db, p)[2]
        rOut == IF tin = PoolTokens[p][1] THEN ReadRes(db, p)[2] ELSE ReadRes(db, p)[1]
        recvIn == AfterTax(tin, amount_in)
        expected == GetAmountOut(recvIn, rIn, rOut)
        actual == AfterTax(tout, expected)
        fail(st, cs, ps) ==
            [status |-> st, out |-> <<0, 0>>,
             loads |-> Loaded(db, Accounts, cs, ps), writes |-> NoWrites]
    IN  IF chain.fault[tin] = "rpc" \/ chain.fault[tout] = "rpc"
        THEN [status |-> "callfailed", out |-> <<0, 0>>,
              loads |-> NoWrites, writes |-> NoWrites]
        ELSE IF ReadAcct(db, "simulator").code = 0
        THEN [status |-> "decode", out |-> <<0, 0>>, loads |-> accts, writes |-> NoWrites]
        ELSE IF {tin, tout} # {PoolTokens[p][1], PoolTokens[p][2]} \/ tin = tout
        THEN fail("revert", {}, {})
        ELSE IF chain.fault[tin] = "halt" \/ chain.fault[tout] = "halt"
        THEN fail("halt", {BalCell(tin)}, {})
        ELSE IF ReadStor(db, BalCell(tin)) < amount_in \/ chain.fault[tin] = "sell_revert"
        THEN fail("revert", {BalCell(tin)}, {})
        ELSE IF expected = 0 \/ chain.fault[tout] = "buy_revert"
        THEN fail("revert", {BalCell(tin)}, {p})
        ELSE [status |-> "ok",
              out |-> <<expected, actual>>,
              loads |-> Loaded(db, Accounts, {BalCell(tin), BalCell(tout)}, {p}),
              writes |->
                [ acct |-> [a \in Accounts |-> NoAcct],
                  stor |-> [c \in Cells |->
                             IF c = BalCell(tin) THEN ReadStor(db, c) - amount_in
                             ELSE IF c = BalCell(tout) THEN ReadStor(db, c) + actual
                             ELSE Absent],
                  res |-> [q \in Pools |->
                             IF q # p THEN NoRes
                             ELSE IF tin = PoolTokens[p][1]
                                  THEN <<rIn + recvIn, rOut - expected>>
                                  ELSE <<rOut - expected, rIn + recvIn>>] ]]

\* a mempool transaction executed by the EVM on the state db shows
PendingExec(db, tx) ==
    LET p == tx.pool
        rIn == IF tx.tin = PoolTokens[p][1] THEN ReadRes(db, p)[1] ELSE ReadRes(db, p)[2]
        rOut == IF tx.tin = PoolTokens[p][1] THEN ReadRes(db, p)[2] ELSE ReadRes(db, p)[1]
        out == GetAmountOut(tx.amount, rIn, rOut)
    IN  IF tx.kind = "noop"
        THEN [status |-> "ok", out |-> <<0, 0>>, loads |-> NoWrites, writes |-> NoWrites]
        ELSE IF tx.kind = "revert"
        THEN [status |-> "revert", out |-> <<0, 0>>, loads |-> NoWrites, writes |-> NoWrites]
        ELSE IF out = 0 \/ out < tx.min_out
        THEN [status |-> "revert", out |-> <<0, 0>>,
              loads |-> Loaded(db, {}, {}, {p}), writes |-> NoWrites]
        ELSE [status |-> "ok", out |-> <<out, out>>,
              loads |-> Loaded(db, {}, {}, {p}),
              writes |->
                [ acct |-> [a \in Accounts |-> NoAcct],
                  stor |-> [c \in Cells |-> Absent],
                  res |-> [q \in Pools |->
                             IF q # p THEN NoRes
                             ELSE IF tx.tin = PoolTokens[p][1]
                                  THEN <<rIn + tx.amount, rOut - out>>
                                  ELSE <<rOut - out, rIn + tx.amount>>] ]]

----------------------------------------------------------------------------
(* EvmSimulator (simulator.rs) *)

\* the Result<TxResult> the match on ExecutionResult produces
TxResultOf(exec) ==
    IF exec.status = "ok"
    THEN [ok |-> TRUE, out |-> exec.out, err |-> "none"]
    ELSE [ok |-> FALSE, out |-> <<0, 0>>, err |-> exec.status]

\* the state changes are written whatever the flag
CommitAlways(db, exec, commit) ==
    IF exec.status = "ok" THEN Overlay(Overlay(db, exec.loads), exec.writes)
    ELSE Overlay(db, exec.loads)

\* the cache after transact_commit (commit) or transact_ref (no commit)
CommitDb(db, exec, commit) ==
    IF ~commit THEN db
    ELSE IF exec.status = "ok" THEN Overlay(Overlay(db, exec.loads), exec.writes)
    ELSE Overlay(db, exec.loads)

_call(db, exec, commit) == [res |-> TxResultOf(exec), db |-> CommitDb(db, exec, commit)]

inject_db(db) == db

run_pending_tx(db, tx) == _call(db, PendingExec(db, tx), TRUE)

set_eth_balance(db, balance) ==
    [db EXCEPT !.acct["owner"] = [balance |-> balance, code |-> 0]]

set_token_balance_unscaled(db, account, token, decimals, slot, balance) ==
    [db EXCEPT !.stor[<<token, BalKey(account, slot)>>] = balance]

\* a store that hashes the account with the neighbouring slot index
set_token_balance_next_slot(db, account, token, decimals, slot, balance) ==
    [db EXCEPT !.stor[<<token, BalKey(account, (slot + 1) % (MaxSlot + 1))>>] = balance * Pow10(decimals)]

set_token_balance(db, account, token, decimals, slot, balance) ==
    [db EXCEPT !.stor[<<token, BalKey(account, slot)>>] = balance * Pow10(decimals)]

deploy_simulator(db) ==
    [db EXCEPT !.acct["simulator"] = [balance |-> 0, code |-> 1]]

v2_simulate_swap(db, amount_in, target_pool, input_token, output_token, commit) ==
    _call(db, SwapExec(db, amount_in, target_pool, input_token, output_token), commit)

\* token_balance_of: a staticcall of balanceOf(account)
token_balance_of(db, token) ==
    [res |-> [ok |-> TRUE, out |-> ReadStor(db, BalCell(token))], db |-> db]

\* v2_pool_get_reserves: a staticcall of getReserves()
v2_pool_get_reserves(db, pool) ==
    [res |-> [ok |-> TRUE, out |-> ReadRes(db, pool)], db |-> db]

\* SandwichSimulator::db_snapshot: CacheDB::clone, a copy of every entry
db_snapshot(db) ==
    [ acct |-> [a \in Accounts |-> db.acct[a]],
      stor |-> [c \in Cells |-> db.stor[c]],
      res  |-> [p \in Pools |-> db.res[p]] ]


----------------------------------------------------------------------------
(* Chain states the fork backend may be pinned to *)

BaseChain ==
    [ res |-> [p \in Pools |-> <<1000, 1000>>],
      tax |-> [t \in Tokens |-> 0],
      slot |-> [t \in Tokens |-> 0],
      fault |-> [t \in Tokens |-> "none"],
      decimals |-> [t \in Tokens |-> 1],
      info |-> [t \in Tokens |-> TRUE] ]

\* a mempool transaction: a swap of amount of tin on pool, or a no-op, or a revert
PendingSwap(p, tin, amount, min_out) ==
    [kind |-> "swap", pool |-> p, tin |-> tin, amount |-> amount, min_out |-> min_out]

PendingOther(kind) ==
    [kind |-> kind, pool |-> "P0", tin |-> "WETH", amount |-> 0, min_out |-> 0]

----------------------------------------------------------------------------
(* evm.env.tx: the transaction environment of an EvmSimulator *)

CallGasLimit == 5000000

ZeroAddr == "zero"
NoneAddr == "none"

\* Option<U256>::unwrap_or_default
OrZero(v) == IF v = Absent THEN 0 ELSE v

\* the environment of EVM::new(): no caller, no data, gas price 0, no priority
\* fee, no chain id (the gas limit of a new environment is written Absent; the
\* first transaction replaces it)
DefaultEnv ==
    [ caller |-> ZeroAddr, transact_to |-> ZeroAddr, data |-> PendingOther("empty"),
      value |-> 0, chain_id |-> Absent, gas_limit |-> Absent,
      gas_price |-> 0, gas_priority_fee |-> Absent ]

\* a Tx handed to call / staticcall
Tx(caller, transact_to, data, value, gas_limit) ==
    [caller |-> caller, transact_to |-> transact_to, data |-> data, value |-> value,
     gas_limit |-> gas_limit]

\* the pending transactions the mempool stream may deliver
MempoolTxs ==
    [ from : {"victim"}, to : {"router", NoneAddr}, value : {0},
      input : {PendingSwap("P0", "WETH", 200, 0), PendingOther("revert")},
      chain_id : {Absent, 1}, gas : {21000},
      transaction_type : {Absent, 0, 1, 2},
      gas_price : {Absent, 5},
      max_fee_per_gas : {Absent, 7},
      max_priority_fee_per_gas : {Absent, 2} ]

\* every transaction is priced by its gas_price field
pending_tx_env_legacy(e, tx) ==
    [ caller |-> tx.from,
      transact_to |-> IF tx.to = NoneAddr THEN ZeroAddr ELSE tx.to,
      data |-> tx.input,
      value |-> tx.value,
      chain_id |-> tx.chain_id,
      gas_limit |-> tx.gas,
      gas_price |-> OrZero(tx.gas_price),
      gas_priority_fee |-> e.gas_priority_fee ]

\* the assignments run_pending_tx makes to evm.env.tx before it executes
pending_tx_env(e, tx) ==
    [ caller |-> tx.from,
      transact_to |-> IF tx.to = NoneAddr THEN ZeroAddr ELSE tx.to,
      data |-> tx.input,
      value |-> tx.value,
      chain_id |-> tx.chain_id,
      gas_limit |-> tx.gas,
      gas_price |-> IF tx.transaction_type = 0 THEN OrZero(tx.gas_price)
                    ELSE IF tx.transaction_type # Absent THEN OrZero(tx.max_fee_per_gas)
                    ELSE OrZero(tx.gas_price),
      gas_priority_fee |-> IF tx.transaction_type \notin {0, Absent}
                           THEN tx.max_priority_fee_per_gas
                           ELSE e.gas_priority_fee ]

\* the assignments _call makes to evm.env.tx before it executes
call_env(e, tx) ==
    [e EXCEPT !.caller = tx.caller, !.transact_to = tx.transact_to, !.data = tx.data,
              !.value = tx.value, !.gas_limit = CallGasLimit]

-----------------------------------------------------------------------------
(* The parts of the state a specification does not use stay at these values *)

EnvIdle ==
    /\ env = DefaultEnv
    /\ envTx = <<>>
    /\ envRan = <<>>

FilterIdle ==
    /\ safe_token_info = <<>>
    /\ balance_slots = <<>>

SandwichIdle ==
    /\ swIn = [tx |-> PendingOther("noop"), pools |-> <<>>, fork |-> FALSE]
    /\ swPc = "idle"
    /\ swTodo = {}
    /\ sandwiches = <<>>
    /\ bIdx = 0
    /\ frontrun_out = <<0, 0>>
    /\ bLog = <<>>
    /\ results = <<>>

ArbIdle ==
    /\ arbIn = [paths |-> <<>>, amount_in |-> 0, fork |-> FALSE]
    /\ arbPc = "idle"
    /\ arbIdx = 0
    /\ arbHop = 0
    /\ amount_out = 0
    /\ arbLog = <<>>
    /\ arbResults = <<>>

EventIdle ==
    /\ new_block = [block_number |-> 0, base_fee |-> 0, next_base_fee |-> 0]
    /\ verified_pools_map = {}
    /\ lastBlock = new_block
    /\ ev = [kind |-> "none"]
    /\ evOut = [kind |-> "none"]
    /\ evPc = "idle"

SetupIdle ==
    /\ suPc = "idle"
    /\ suLog = <<>>

BusIdle ==
    /\ busBuf = <<>>
    /\ busLagged = 0
    /\ busSeq = 0
    /\ busHead = 0
    /\ busJob = [seq |-> 0, epoch |-> 0, ticks |-> 0]
    /\ busLog = <<>>

ProxyIdle ==
    /\ prResp = <<>>
    /\ prDone = <<>>
    /\ prRet = [kind |-> "idle", value |-> 0]

HoneyIdle ==
    /\ token_info = <<>>
    /\ honeypot = <<>>
    /\ hpIn = <<>>
    /\ hpPc = "idle"
    /\ hpIdx = 0
    /\ hpOut = <<0, 0>>
    /\ hpLog = <<>>
    /\ cacheFiles = [tokens |-> <<>>, honeypot |-> <<>>]

HarnessIdle ==
    /\ dbs = [i \in DbIds |-> EmptyCache]
    /\ live = {}
    /\ hdb = [h \in {"A", "B"} |-> NoDb]
    /\ snap = NoDb
    /\ snapCache = EmptyCache
    /\ snapView = EmptyCache
    /\ lastOp = [op |-> "new", h |-> "A", dirty |-> FALSE]
    /\ steps = 0

----------------------------------------------------------------------------
(* SpecHarness: two harnesses on the same pinned block, a snapshot taken   *)
(* from one and injected into either (sandwich.rs:32-34, simulator.rs:92)  *)

Harness == {"A", "B"}

\* the smallest free DbId
FreshDb == CHOOSE i \in DbIds \ live : \A j \in DbIds \ live : i <= j

\* the object a clone of CacheDB src lives in: a new one
CloneAlias(src, fresh) == src
CloneInto(src, fresh) == fresh

InitHarness ==
    /\ chain = BaseChain
    /\ dbs = [i \in DbIds |-> EmptyCache]
    /\ live = {0, 1}
    /\ hdb = [h \in Harness |-> IF h = "A" THEN 0 ELSE 1]
    /\ snap = NoDb
    /\ snapCache = EmptyCache
    /\ snapView = View(EmptyCache)
    /\ lastOp = [op |-> "new", h |-> "A", dirty |-> FALSE]
    /\ steps = 0
    /\ FilterIdle
    /\ SandwichIdle
    /\ ArbIdle
    /\ EventIdle
    /\ HoneyIdle
    /\ SetupIdle
    /\ BusIdle
    /\ ProxyIdle
    /\ EnvIdle

\* a mutation of harness h's own cache
Mutate(h, op, db) ==
    /\ steps < MaxSteps
    /\ steps' = steps + 1
    /\ dbs' = [dbs EXCEPT ![hdb[h]] = db]
    /\ lastOp' = [op |-> IF op \in {"call", "staticcall"} THEN op ELSE "mutate",
                   h |-> IF op \in {"call", "staticcall"} THEN h ELSE "A", dirty |-> FALSE]
    /\ UNCHANGED <<chain, live, hdb, snap, snapCache, snapView, filterVars, sandwichVars, arbVars, eventVars, honeyVars, setupVars, busVars, proxyVars, envVars>>

HSetEthBalance(h) == Mutate(h, "set_eth_balance", set_eth_balance(dbs[hdb[h]], 10000))

HDeploySimulator(h) == Mutate(h, "deploy_simulator", deploy_simulator(dbs[hdb[h]]))

HSetTokenBalanceAt(h, t, slot) ==
    Mutate(h, "set_token_balance",
           set_token_balance(dbs[hdb[h]], "simulator", t, chain.decimals[t], slot, 50))

HSetTokenBalance(h) == \E t \in {"WETH"}, slot \in Slots : HSetTokenBalanceAt(h, t, slot)

HCall(h) ==
    \E dir \in {<<"WETH", "TKA">>}, commit \in BOOLEAN :
        Mutate(h, IF commit THEN "call" ELSE "staticcall",
               v2_simulate_swap(dbs[hdb[h]], 100, "P0", dir[1], dir[2], commit).db)

HRunPendingTx(h) ==
    \E tx \in {PendingSwap("P0", "WETH", 200, 0), PendingOther("revert")} :
        Mutate(h, "run_pending_tx", run_pending_tx(dbs[hdb[h]], tx).db)

\* let fork_db = self.db_snapshot();
HSnapshot(h) ==
    /\ steps < MaxSteps
    /\ steps' = steps + 1
    /\ LET keep == live \ (IF snap = NoDb THEN {} ELSE {snap})
           fresh == CHOOSE i \in DbIds \ keep : \A j \in DbIds \ keep : i <= j
           target == CloneInto(hdb[h], fresh)
       IN  /\ dbs' = [i \in DbIds |->
                        IF i = target THEN db_snapshot(dbs[hdb[h]])
                        ELSE IF i \in keep THEN dbs[i] ELSE EmptyCache]
           /\ live' = keep \cup {target}
           /\ snap' = target
    /\ snapCache' = dbs[hdb[h]]
    /\ snapView' = View(dbs[hdb[h]])
    /\ lastOp' = [op |-> "mutate", h |-> "A", dirty |-> FALSE]
    /\ UNCHANGED <<chain, hdb, filterVars, sandwichVars, arbVars, eventVars, honeyVars, setupVars, busVars, proxyVars, envVars>>

\* simulator.inject_db(fork_db.clone()): the harness drops its own cache
HInjectClone(h) ==
    /\ steps < MaxSteps
    /\ snap # NoDb
    /\ steps' = steps + 1
    /\ LET fresh == FreshDb
           old == hdb[h]
       IN  /\ dbs' = [dbs EXCEPT ![fresh] = inject_db(db_snapshot(dbs[snap])),
                                 ![old] = IF old = snap THEN @ ELSE EmptyCache]
           /\ live' = (live \cup {fresh}) \ (IF old = snap THEN {} ELSE {old})
           /\ hdb' = [hdb EXCEPT ![h] = fresh]
    /\ lastOp' = [op |-> "inject_db", h |-> h, dirty |-> dbs[hdb[h]] # EmptyCache]
    /\ UNCHANGED <<chain, snap, snapCache, snapView, filterVars, sandwichVars, arbVars, eventVars, honeyVars, setupVars, busVars, proxyVars, envVars>>

\* simulator.inject_db(fork_db): the snapshot is moved into the harness
HInjectMove(h) ==
    /\ steps < MaxSteps
    /\ snap # NoDb
    /\ hdb[h] # snap
    /\ steps' = steps + 1
    /\ dbs' = [dbs EXCEPT ![snap] = inject_db(@), ![hdb[h]] = EmptyCache]
    /\ live' = live \ {hdb[h]}
    /\ hdb' = [hdb EXCEPT ![h] = snap]
    /\ snap' = NoDb
    /\ lastOp' = [op |-> "inject_db", h |-> h, dirty |-> dbs[hdb[h]] # EmptyCache]
    /\ UNCHANGED <<chain, snapCache, snapView, filterVars, sandwichVars, arbVars, eventVars, honeyVars, setupVars, busVars, proxyVars, envVars>>

NextHarness ==
    \/ \E h \in Harness :
        \/ HSetEthBalance(h)
        \/ HSetTokenBalance(h)
        \/ HCall(h)
        \/ HInjectClone(h)
        \/ HInjectMove(h)
    \/ HDeploySimulator("A")
    \/ HRunPendingTx("A")
    \/ HSnapshot("A")

SpecHarness == InitHarness /\ [][NextHarness]_vars

\* C1: a cache returned by db_snapshot is not changed by any later mutation of
\* the harness it was taken from, and a harness into which it is injected reads,
\* for every account and every storage cell, the value the source harness held
\* at the moment of the snapshot.
C1_SnapshotIsolation ==
    /\ snap # NoDb => dbs[snap] = snapCache
    /\ lastOp.op = "inject_db" => View(dbs[hdb[lastOp.h]]) = snapView

\* an injection into a harness that had mutations of its own, of a snapshot
\* that differs from the backend, after the source harness moved on
C1_Witness ==
    /\ lastOp.op = "inject_db"
    /\ lastOp.h = "B"
    /\ lastOp.dirty
    /\ snapView # View(EmptyCache)
    /\ View(dbs[hdb["A"]]) # snapView


----------------------------------------------------------------------------
(* simulate_sandwich_bundle (sandwich.rs:113-186) *)

U64Max == 65535     \* the largest value as_u64 converts (u64 modelled 16 bits wide)

\* Token as get_token_info builds it (name and symbol left out)
Token(t) == [address |-> t, decimals |-> chain.decimals[t]]

NoneToken == "None"

SomeDb(db) == [some |-> TRUE, db |-> db]
NoneDb == [some |-> FALSE, db |-> EmptyCache]

\* (input_token, output_token) of the frontrun
BundleTokens(sandwich) ==
    IF sandwich.target_pool.token0 = sandwich.target_token.address
    THEN <<sandwich.target_pool.token0, sandwich.target_pool.token1>>
    ELSE <<sandwich.target_pool.token1, sandwich.target_pool.token0>>

\* the cache of the bundle's own EvmSimulator after the match on fork_db
BundleSetup(sandwich, fork_db) ==
    IF fork_db.some
    THEN inject_db(fork_db.db)
    ELSE set_token_balance(
             deploy_simulator(set_eth_balance(EmptyCache, 10000)),
             "simulator", sandwich.target_token.address,
             sandwich.target_token.decimals, sandwich.balance_slot, 10000)

SwapEntry(amount, p, tin, tout, res) ==
    [op |-> "swap", amount |-> amount, pool |-> p, tin |-> tin, tout |-> tout,
     ok |-> res.ok, out |-> res.out]

TxEntry(res) ==
    [op |-> "pending_tx", amount |-> 0, pool |-> "-", tin |-> "-", tout |-> "-",
     ok |-> res.ok, out |-> res.out]

BundleFrontrun(db, sandwich) ==
    v2_simulate_swap(db, sandwich.amount_in, sandwich.target_pool.address,
                     BundleTokens(sandwich)[1], BundleTokens(sandwich)[2], TRUE)

BundleMeat(db, sandwich) == run_pending_tx(db, sandwich.meat_tx)

\* the backrun sells the frontrun's actual output
BackrunAmountExpected(fr_out) == fr_out[1]
BackrunAmount(fr_out) == fr_out[2]

BundleBackrun(db, sandwich, fr_out) ==
    v2_simulate_swap(db, BackrunAmount(fr_out), sandwich.target_pool.address,
                     BundleTokens(sandwich)[2], BundleTokens(sandwich)[1], TRUE)

\* (amount_out.as_u64() as i128) - (amount_in.as_u64() as i128); as_u64 panics
\* on a value that does not fit
BundleProfit(out_amount, in_amount, log) ==
    IF out_amount > U64Max \/ in_amount > U64Max
    THEN [ok |-> FALSE, profit |-> 0, err |-> "panic", log |-> log]
    ELSE [ok |-> TRUE, profit |-> out_amount - in_amount, err |-> "none", log |-> log]

\* a failed swap reported as a profit of zero instead of an Err
BundleErrAsOk(err, log) == [ok |-> TRUE, profit |-> 0, err |-> "none", log |-> log]

\* Err(anyhow!(...)) from a swap of the bundle, with the swaps made so far
BundleErr(err, log) == [ok |-> FALSE, profit |-> 0, err |-> err, log |-> log]

\* the whole function: Result<i128> and the calls it committed
simulate_sandwich_bundle(sandwich, fork_db) ==
    LET toks == BundleTokens(sandwich)
        p == sandwich.target_pool.address
        db0 == BundleSetup(sandwich, fork_db)
        fr == BundleFrontrun(db0, sandwich)
        log1 == <<SwapEntry(sandwich.amount_in, p, toks[1], toks[2], fr.res)>>
        meat == BundleMeat(fr.db, sandwich)
        log2 == Append(log1, TxEntry(meat.res))
        br == BundleBackrun(meat.db, sandwich, fr.res.out)
        log3 == Append(log2, SwapEntry(BackrunAmount(fr.res.out), p, toks[2], toks[1], br.res))
    IN  IF ~fr.res.ok THEN BundleErr(fr.res.err, log1)
        ELSE IF ~br.res.ok THEN BundleErr(br.res.err, log3)
        ELSE BundleProfit(br.res.out[2], sandwich.amount_in, log3)

----------------------------------------------------------------------------
(* SpecSandwich: SandwichSimulator::simulate (sandwich.rs:36-110), and the  *)
(* loop of event_handler over the touched pools (strategy.rs:234-280),      *)
(* which calls simulate_sandwich_bundle without a snapshot (fork = FALSE)   *)

SandwichChains ==
    { BaseChain,
      [BaseChain EXCEPT !.tax["TKA"] = 10, !.decimals["WETH"] = 2],
      [BaseChain EXCEPT !.fault["TKB"] = "sell_revert"],
      [BaseChain EXCEPT !.fault["TKB"] = "buy_revert"] }

SandwichTxs ==
    { PendingSwap("P0", "WETH", 200, 0),
      PendingSwap("P0", "WETH", 200, 164),
      PendingSwap("P1", "TKB", 300, 0),
      PendingOther("revert") }

\* the Option<H160> a touched pool may be mapped to
UseTokens(p) == {NoneToken} \cup ({PoolTokens[p][1], PoolTokens[p][2]} \cap SafeTokenSet)

SandwichMaps ==
    { m \in UNION {[D -> SafeTokenSet \cup {NoneToken}] : D \in SUBSET {"P0", "P1", "P2"}} :
        \A p \in DOMAIN m : m[p] \in UseTokens(p) }

InitSandwichWith(chains, txs) ==
    /\ chain \in chains
    /\ safe_token_info = [t \in SafeTokenSet |-> Token(t)]
    /\ balance_slots = [t \in SafeTokenSet |-> chain.slot[t]]
    /\ swIn \in [tx : txs, pools : SandwichMaps, fork : BOOLEAN]
    /\ swPc = IF swIn.fork THEN "start" ELSE "prepare"
    /\ swTodo = DOMAIN swIn.pools
    /\ sandwiches = <<>>
    /\ bIdx = 0
    /\ frontrun_out = <<0, 0>>
    /\ bLog = <<>>
    /\ results = <<>>
    /\ dbs = [i \in DbIds |-> EmptyCache]
    /\ live = {0}
    /\ hdb = [h \in Harness |-> IF h = "A" THEN 0 ELSE NoDb]
    /\ snap = NoDb
    /\ snapCache = EmptyCache
    /\ snapView = EmptyCache
    /\ lastOp = [op |-> "new", h |-> "A", dirty |-> FALSE]
    /\ steps = 0
    /\ ArbIdle
    /\ EventIdle
    /\ HoneyIdle
    /\ SetupIdle
    /\ BusIdle
    /\ ProxyIdle
    /\ EnvIdle

InitSandwich == InitSandwichWith(SandwichChains, SandwichTxs)

swFrame == <<chain, filterVars, swIn, snapView, lastOp, steps, arbVars, eventVars, honeyVars, setupVars, busVars, proxyVars, envVars>>

\* self.simulator.set_eth_balance(10000); self.simulator.deploy_simulator();
SwSeed ==
    /\ swPc = "start"
    /\ dbs' = [dbs EXCEPT ![hdb["A"]] = deploy_simulator(set_eth_balance(@, 10000))]
    /\ swPc' = "prepare"
    /\ UNCHANGED <<swFrame, live, hdb, snap, snapCache, swTodo, sandwiches, bIdx,
                   frontrun_out, bLog, results>>

NewSandwich(p, used, amount_in) ==
    [ amount_in |-> amount_in,
      balance_slot |-> balance_slots[used],
      target_token |-> safe_token_info[used],
      target_pool |-> Pool(p),
      meat_tx |-> swIn.tx ]

\* one iteration of the loop over sandwichable_pools (a HashMap: any order)
SwPrepare(p) ==
    /\ swPc = "prepare"
    /\ p \in swTodo
    /\ swTodo' = swTodo \ {p}
    /\ LET used == swIn.pools[p] IN
        IF used = NoneToken
        THEN UNCHANGED <<dbs, sandwiches>>
        ELSE IF swIn.fork
        THEN LET seeded == set_token_balance(dbs[hdb["A"]], "simulator", used,
                               safe_token_info[used].decimals, balance_slots[used], 10000)
                 r0 == token_balance_of(seeded, Pool(p).token0)
                 r1 == token_balance_of(r0.db, Pool(p).token1)
                 r2 == v2_pool_get_reserves(r1.db, p)
             IN  /\ dbs' = [dbs EXCEPT ![hdb["A"]] = r2.db]
                 /\ sandwiches' = Append(sandwiches, NewSandwich(p, used, 0))
        ELSE /\ sandwiches' = Append(sandwiches,
                    NewSandwich(p, used, 1 * Pow10(safe_token_info[used].decimals)))
             /\ UNCHANGED dbs
    /\ UNCHANGED <<swFrame, live, hdb, snap, snapCache, swPc, bIdx, frontrun_out, bLog, results>>

\* let fork_db = self.db_snapshot();
SwSnapshot ==
    /\ swPc = "prepare"
    /\ swTodo = {}
    /\ swIn.fork
    /\ LET target == CloneInto(hdb["A"], FreshDb) IN
        /\ dbs' = [dbs EXCEPT ![target] = db_snapshot(dbs[hdb["A"]])]
        /\ live' = live \cup {target}
        /\ snap' = target
    /\ snapCache' = dbs[hdb["A"]]
    /\ swPc' = "bundles"
    /\ bIdx' = 1
    /\ UNCHANGED <<swFrame, hdb, swTodo, sandwiches, frontrun_out, bLog, results>>

\* event_handler has no snapshot to take
SwNoSnapshot ==
    /\ swPc = "prepare"
    /\ swTodo = {}
    /\ ~swIn.fork
    /\ swPc' = "bundles"
    /\ bIdx' = 1
    /\ UNCHANGED <<swFrame, dbs, live, hdb, snap, snapCache, swTodo, sandwiches,
                   frontrun_out, bLog, results>>

\* the bundle's EvmSimulator::new and the match on fork_db
SwBundleStart ==
    /\ swPc = "bundles"
    /\ bIdx <= Len(sandwiches)
    /\ LET amount_in == 1 * Pow10(sandwiches[bIdx].target_token.decimals)
           sandwich == [sandwiches[bIdx] EXCEPT !.amount_in = amount_in]
           id == IF swIn.fork THEN CloneInto(snap, FreshDb) ELSE FreshDb
           fork_db == IF swIn.fork THEN SomeDb(db_snapshot(dbs[snap])) ELSE NoneDb
       IN  /\ sandwiches' = [sandwiches EXCEPT ![bIdx] = sandwich]
           /\ dbs' = [dbs EXCEPT ![id] = BundleSetup(sandwich, fork_db)]
           /\ live' = live \cup {id}
           /\ hdb' = [hdb EXCEPT !["B"] = id]
    /\ bLog' = <<>>
    /\ swPc' = "frontrun"
    /\ UNCHANGED <<swFrame, snap, snapCache, swTodo, bIdx, frontrun_out, results>>

\* simulate_sandwich_bundle returns: its EvmSimulator is dropped, the caller logs
EndBundle(result, db) ==
    /\ results' = Append(results, result)
    /\ dbs' = [dbs EXCEPT ![hdb["B"]] = IF hdb["B"] = snap THEN db ELSE EmptyCache]
    /\ live' = IF hdb["B"] = snap THEN live ELSE live \ {hdb["B"]}
    /\ hdb' = [hdb EXCEPT !["B"] = NoDb]
    /\ bIdx' = bIdx + 1
    /\ swPc' = IF result.err = "panic" THEN "panicked" ELSE "bundles"

SwFrontrun ==
    /\ swPc = "frontrun"
    /\ LET sandwich == sandwiches[bIdx]
           toks == BundleTokens(sandwich)
           r == BundleFrontrun(dbs[hdb["B"]], sandwich)
           log == Append(bLog, SwapEntry(sandwich.amount_in, sandwich.target_pool.address,
                                          toks[1], toks[2], r.res))
       IN  /\ bLog' = log
           /\ IF r.res.ok
              THEN /\ dbs' = [dbs EXCEPT ![hdb["B"]] = r.db]
                   /\ frontrun_out' = r.res.out
                   /\ swPc' = "meat"
                   /\ UNCHANGED <<live, hdb, bIdx, results>>
              ELSE /\ EndBundle(BundleErr(r.res.err, log), r.db)
                   /\ UNCHANGED frontrun_out
    /\ UNCHANGED <<swFrame, snap, snapCache, swTodo, sandwiches>>

SwMeat ==
    /\ swPc = "meat"
    /\ LET r == BundleMeat(dbs[hdb["B"]], sandwiches[bIdx]) IN
        /\ dbs' = [dbs EXCEPT ![hdb["B"]] = r.db]
        /\ bLog' = Append(bLog, TxEntry(r.res))
    /\ swPc' = "backrun"
    /\ UNCHANGED <<swFrame, live, hdb, snap, snapCache, swTodo, sandwiches, bIdx,
                   frontrun_out, results>>

SwBackrun ==
    /\ swPc = "backrun"
    /\ LET sandwich == sandwiches[bIdx]
           toks == BundleTokens(sandwich)
           r == BundleBackrun(dbs[hdb["B"]], sandwich, frontrun_out)
           log == Append(bLog, SwapEntry(BackrunAmount(frontrun_out),
                                          sandwich.target_pool.address,
                                          toks[2], toks[1], r.res))
       IN  /\ bLog' = log
           /\ IF r.res.ok
              THEN EndBundle(BundleProfit(r.res.out[2], sandwich.amount_in, log), r.db)
              ELSE EndBundle(BundleErr(r.res.err, log), r.db)
    /\ UNCHANGED <<swFrame, snap, snapCache, swTodo, sandwiches, frontrun_out>>

\* Ok(())
SwDone ==
    /\ swPc = "bundles"
    /\ bIdx > Len(sandwiches)
    /\ swPc' = "done"
    /\ UNCHANGED <<swFrame, dbs, live, hdb, snap, snapCache, swTodo, sandwiches, bIdx,
                   frontrun_out, bLog, results>>

NextSandwich ==
    \/ SwSeed
    \/ \E p \in ListedPools : SwPrepare(p)
    \/ SwSnapshot
    \/ SwNoSnapshot
    \/ SwBundleStart
    \/ SwFrontrun
    \/ SwMeat
    \/ SwBackrun
    \/ SwDone

SpecSandwich == InitSandwich /\ [][NextSandwich]_vars


\* the pre-state simulate assembles, computed from its arguments alone
RECURSIVE SeedAll(_, _)
SeedAll(db, ps) ==
    IF ps = {} THEN db
    ELSE LET p == CHOOSE q \in ps : TRUE
             used == swIn.pools[p]
         IN  SeedAll(set_token_balance(db, "simulator", used, chain.decimals[used],
                                       chain.slot[used], 10000),
                     ps \ {p})

PreStateOf ==
    SeedAll(deploy_simulator(set_eth_balance(EmptyCache, 10000)),
            {p \in DOMAIN swIn.pools : swIn.pools[p] # NoneToken})

\* the candidate for pool p, evaluated alone
AloneSandwich(p) ==
    LET used == swIn.pools[p] IN
    [ amount_in |-> 1 * Pow10(chain.decimals[used]),
      balance_slot |-> chain.slot[used],
      target_token |-> Token(used),
      target_pool |-> Pool(p),
      meat_tx |-> swIn.tx ]

AloneResult(p) ==
    simulate_sandwich_bundle(AloneSandwich(p),
                             IF swIn.fork THEN SomeDb(PreStateOf) ELSE NoneDb)

\* C2: every bundle starts from its own copy of the same pre-state snapshot; the
\* commits of a bundle are visible neither to the snapshot nor to another
\* bundle, and each candidate's profit or error is the one it gets when it is
\* evaluated alone, whatever the order of evaluation.
C2_BundleIsolation ==
    /\ (swIn.fork /\ snap # NoDb) => (dbs[snap] = snapCache /\ snapCache = PreStateOf)
    /\ (swIn.fork /\ swPc = "frontrun") =>
          (hdb["B"] \notin {snap, hdb["A"]} /\ dbs[hdb["B"]] = snapCache)
    /\ \A k \in 1 .. Len(results) :
          results[k] = AloneResult(sandwiches[k].target_pool.address)

\* two bundles evaluated from one snapshot, both of which committed three calls
C2_Witness ==
    /\ swPc = "done"
    /\ swIn.fork
    /\ Len(results) = 2
    /\ results[1].ok
    /\ results[2].ok
    /\ results[1].log[2].ok

\* C7: a bundle commits the frontrun S -> other with amount_in = 1 * 10^decimals,
\* then the victim transaction, then the backrun other -> S whose input is the
\* frontrun's actual output; the profit is the backrun's actual output minus
\* the frontrun's amount_in.
C7_BundleOrdering ==
    \A k \in 1 .. Len(results) :
        LET r == results[k]
            s == sandwiches[k]
            S == s.target_token.address
            other == IF s.target_pool.token0 = S THEN s.target_pool.token1
                     ELSE s.target_pool.token0
        IN  /\ s.amount_in = 1 * Pow10(chain.decimals[S])
            /\ Len(r.log) >= 1
            /\ r.log[1].op = "swap" /\ r.log[1].amount = s.amount_in
            /\ r.log[1].tin = S /\ r.log[1].tout = other
            /\ r.log[1].pool = s.target_pool.address
            /\ r.log[1].ok =>
                  /\ Len(r.log) = 3
                  /\ r.log[2].op = "pending_tx"
                  /\ r.log[3].op = "swap" /\ r.log[3].amount = r.log[1].out[2]
                  /\ r.log[3].tin = other /\ r.log[3].tout = S
                  /\ r.log[3].pool = s.target_pool.address
            /\ ~r.log[1].ok => Len(r.log) = 1
            /\ r.ok => r.profit = r.log[3].out[2] - r.log[1].amount

\* a finished bundle on a taxed token (expected and actual output differ) whose
\* victim transaction executed and whose backrun returned a profit estimate
C7_Witness ==
    \E k \in 1 .. Len(results) :
        /\ results[k].ok
        /\ results[k].log[1].out[1] # results[k].log[1].out[2]
        /\ results[k].log[2].ok
        /\ results[k].log[3].out[2] > 0

\* C8 as claimed: a bundle in which the frontrun, the victim transaction or the
\* backrun fails yields no profit estimate.
C8_AnyFailureNoProfit ==
    \A k \in 1 .. Len(results) :
        (\E i \in 1 .. Len(results[k].log) : ~results[k].log[i].ok) => ~results[k].ok

\* C8 amended: a bundle whose frontrun or backrun fails yields no profit
\* estimate (an Err the caller only logs: the loop goes on to the next
\* sandwich); a failing victim transaction is only logged inside the bundle,
\* which goes on to the backrun.
C8_SwapFailureNoProfit ==
    /\ \A k \in 1 .. Len(results) :
        LET r == results[k] IN
        /\ (~r.log[1].ok \/ (Len(r.log) = 3 /\ ~r.log[3].ok)) =>
              (~r.ok /\ r.err \notin {"none", "panic"})
        /\ (r.log[1].ok /\ ~r.log[2].ok) => (Len(r.log) = 3 /\ r.log[3].op = "swap")
    /\ (\A k \in 1 .. Len(results) : results[k].err # "panic") => swPc # "panicked"
    /\ swPc = "done" => Len(results) = Len(sandwiches)

\* a run of simulate in which one bundle failed at its frontrun and another
\* reported a profit although its victim transaction reverted
C8_Witness ==
    /\ swPc = "done"
    /\ \E k \in 1 .. Len(results) : ~results[k].ok /\ ~results[k].log[1].ok
    /\ \E k \in 1 .. Len(results) : results[k].ok /\ ~results[k].log[2].ok


----------------------------------------------------------------------------
(* simulate_triangular_arbitrage (arbitrage.rs:20-79) *)

\* ArbPath: nhop hops, each a pool and a direction
ArbPath(pools, dirs) == [nhop |-> Len(pools), pools |-> pools, zero_for_one |-> dirs]

get_pool(path, n) == Pool(path.pools[n + 1])

get_zero_for_one(path, n) == path.zero_for_one[n + 1]

HopTokensReversed(path, n) ==
    IF get_zero_for_one(path, n)
    THEN <<get_pool(path, n).token1, get_pool(path, n).token0>>
    ELSE <<get_pool(path, n).token0, get_pool(path, n).token1>>

\* (input_token, output_token) of hop n
HopTokens(path, n) ==
    IF get_zero_for_one(path, n)
    THEN <<get_pool(path, n).token0, get_pool(path, n).token1>>
    ELSE <<get_pool(path, n).token1, get_pool(path, n).token0>>

\* the cache of the call's own EvmSimulator after the match on fork_db; base is
\* the cache EvmSimulator::new built
ArbSetup(base, arb, fork_db) ==
    IF fork_db.some
    THEN inject_db(fork_db.db)
    ELSE set_token_balance(
             deploy_simulator(set_eth_balance(base, 100000)),
             "simulator", arb.target_token.address,
             arb.target_token.decimals, arb.balance_slot, 100000)

\* every hop swaps amount_in instead of the output of the hop before it
ArbHopCallSameAmount(db, arb, n, amount) ==
    v2_simulate_swap(db, arb.amount_in, get_pool(arb.path, n).address,
                     HopTokens(arb.path, n)[1], HopTokens(arb.path, n)[2], TRUE)

ArbHopCall(db, arb, n, amount) ==
    v2_simulate_swap(db, amount, get_pool(arb.path, n).address,
                     HopTokens(arb.path, n)[1], HopTokens(arb.path, n)[2], TRUE)

ArbHopEntry(arb, n, amount, res) ==
    SwapEntry(amount, get_pool(arb.path, n).address,
              HopTokens(arb.path, n)[1], HopTokens(arb.path, n)[2], res)

RECURSIVE ArbWalk(_, _, _, _, _)
ArbWalk(db, arb, n, amount, log) ==
    IF n = arb.path.nhop THEN BundleProfit(amount, arb.amount_in, log)
    ELSE LET r == ArbHopCall(db, arb, n, amount)
             log1 == Append(log, ArbHopEntry(arb, n, amount, r.res))
         IN  IF ~r.res.ok THEN BundleErr(r.res.err, log1)
             ELSE ArbWalk(r.db, arb, n + 1, r.res.out[2], log1)

\* the whole function on a new harness: Result<i128> and the swaps it committed
simulate_triangular_arbitrage(arb, fork_db) ==
    ArbWalk(ArbSetup(EmptyCache, arb, fork_db), arb, 0, arb.amount_in, <<>>)

----------------------------------------------------------------------------
(* SpecArb: the loop of main over arb_paths (main.rs:70-96); with fork, a   *)
(* caller that hands every call a clone of one pre-seeded snapshot          *)

MaxPaths == 2       \* paths in arb_paths

ArbChains ==
    { BaseChain,
      [BaseChain EXCEPT !.fault["TKB"] = "buy_revert"],
      [BaseChain EXCEPT !.res["P2"] = <<1000, 2000>>],
      [BaseChain EXCEPT !.tax["TKA"] = 10] }

\* USDT -> WETH -> TKA -> USDT, its reverse, a two-hop cycle, a path through TKB
ArbPathSet ==
    { ArbPath(<<"P2", "P0", "P3">>, <<TRUE, FALSE, TRUE>>),
      ArbPath(<<"P3", "P0", "P2">>, <<FALSE, TRUE, FALSE>>),
      ArbPath(<<"P2", "P2">>, <<TRUE, FALSE>>),
      ArbPath(<<"P2", "P1", "P1">>, <<TRUE, FALSE, TRUE>>) }

\* EvmSimulator::new: CacheDB::new(shared_backend), a cache of its own
ReuseHarnessDb(prev, fresh) == IF prev = NoDb THEN fresh ELSE prev
NewHarnessDb(prev, fresh) == fresh

\* the TriangularArbitrage main builds for arb_paths[i]
ArbOf(i) ==
    [ amount_in |-> arbIn.amount_in,
      path |-> arbIn.paths[i],
      balance_slot |-> balance_slots[SafeTokens.usdt],
      target_token |-> safe_token_info[SafeTokens.usdt] ]

\* the pre-seeded snapshot a caller with fork_db holds
ArbSnapshot ==
    set_token_balance(deploy_simulator(set_eth_balance(EmptyCache, 100000)),
                      "simulator", SafeTokens.usdt, chain.decimals[SafeTokens.usdt],
                      chain.slot[SafeTokens.usdt], 100000)

InitArb ==
    /\ chain \in ArbChains
    /\ safe_token_info = [t \in SafeTokenSet |-> Token(t)]
    /\ balance_slots = [t \in SafeTokenSet |-> chain.slot[t]]
    /\ arbIn \in [ paths : UNION {[1 .. n -> ArbPathSet] : n \in 1 .. MaxPaths},
                   amount_in : {100, 300}, fork : BOOLEAN ]
    /\ arbPc = "loop"
    /\ arbIdx = 1
    /\ arbHop = 0
    /\ amount_out = 0
    /\ arbLog = <<>>
    /\ arbResults = <<>>
    /\ dbs = [i \in DbIds |-> IF i = 0 /\ arbIn.fork THEN ArbSnapshot ELSE EmptyCache]
    /\ live = IF arbIn.fork THEN {0} ELSE {}
    /\ hdb = [h \in Harness |-> NoDb]
    /\ snap = IF arbIn.fork THEN 0 ELSE NoDb
    /\ snapCache = IF arbIn.fork THEN ArbSnapshot ELSE EmptyCache
    /\ snapView = EmptyCache
    /\ lastOp = [op |-> "new", h |-> "A", dirty |-> FALSE]
    /\ steps = 0
    /\ SandwichIdle
    /\ EventIdle
    /\ HoneyIdle
    /\ SetupIdle
    /\ BusIdle
    /\ ProxyIdle
    /\ EnvIdle

arbFrame ==
    <<chain, filterVars, sandwichVars, arbIn, snap, snapCache, snapView, lastOp, steps,
      eventVars, honeyVars, setupVars, busVars, proxyVars, envVars>>

\* the call begins: EvmSimulator::new, then the match on fork_db.  The cache of
\* the previous call's simulator, dropped when that call returned, is released.
ArbStart ==
    /\ arbPc = "loop"
    /\ arbIdx <= Len(arbIn.paths)
    /\ LET prev == hdb["B"]
           keep == live \ {prev}
           fresh == CHOOSE i \in DbIds \ live : \A j \in DbIds \ live : i <= j
           id == IF arbIn.fork THEN CloneInto(snap, fresh) ELSE NewHarnessDb(prev, fresh)
           fork_db == IF arbIn.fork THEN SomeDb(db_snapshot(dbs[snap])) ELSE NoneDb
           base == IF id = prev THEN dbs[prev] ELSE EmptyCache
       IN  /\ dbs' = [i \in DbIds |->
                        IF i = id THEN ArbSetup(base, ArbOf(arbIdx), fork_db)
                        ELSE IF i = prev THEN EmptyCache ELSE dbs[i]]
           /\ live' = keep \cup {id}
           /\ hdb' = [hdb EXCEPT !["B"] = id]
    /\ amount_out' = arbIn.amount_in
    /\ arbHop' = 0
    /\ arbLog' = <<>>
    /\ arbPc' = "hops"
    /\ UNCHANGED <<arbFrame, arbIdx, arbResults>>

\* one iteration of for n in 0..arb.path.nhop
ArbHop ==
    /\ arbPc = "hops"
    /\ arbHop < ArbOf(arbIdx).path.nhop
    /\ LET arb == ArbOf(arbIdx)
           r == ArbHopCall(dbs[hdb["B"]], arb, arbHop, amount_out)
           log == Append(arbLog, ArbHopEntry(arb, arbHop, amount_out, r.res))
       IN  /\ dbs' = [dbs EXCEPT ![hdb["B"]] = r.db]
           /\ arbLog' = log
           /\ IF r.res.ok
              THEN /\ amount_out' = r.res.out[2]
                   /\ arbHop' = arbHop + 1
                   /\ UNCHANGED <<arbPc, arbIdx, arbResults>>
              ELSE /\ arbResults' = Append(arbResults, BundleErr(r.res.err, log))
                   /\ arbIdx' = arbIdx + 1
                   /\ arbPc' = "loop"
                   /\ UNCHANGED <<amount_out, arbHop>>
    /\ UNCHANGED <<arbFrame, live, hdb>>

\* the profit after the last hop; the caller matches on the result and goes on
ArbFinish ==
    /\ arbPc = "hops"
    /\ arbHop = ArbOf(arbIdx).path.nhop
    /\ LET r == BundleProfit(amount_out, ArbOf(arbIdx).amount_in, arbLog) IN
        /\ arbResults' = Append(arbResults, r)
        /\ arbPc' = IF r.err = "panic" THEN "panicked" ELSE "loop"
    /\ arbIdx' = arbIdx + 1
    /\ UNCHANGED <<arbFrame, dbs, live, hdb, arbHop, amount_out, arbLog>>

\* main returns Ok(())
ArbDone ==
    /\ arbPc = "loop"
    /\ arbIdx > Len(arbIn.paths)
    /\ arbPc' = "done"
    /\ UNCHANGED <<arbFrame, dbs, live, hdb, arbIdx, arbHop, amount_out, arbLog, arbResults>>

NextArb == ArbStart \/ ArbHop \/ ArbFinish \/ ArbDone

SpecArb == InitArb /\ [][NextArb]_vars

\* the result of evaluating arb_paths[i] alone
ArbAlone(i) ==
    simulate_triangular_arbitrage(
        [ amount_in |-> arbIn.amount_in, path |-> arbIn.paths[i],
          balance_slot |-> chain.slot[SafeTokens.usdt],
          target_token |-> Token(SafeTokens.usdt) ],
        IF arbIn.fork THEN SomeDb(ArbSnapshot) ELSE NoneDb)

\* C3: each call of simulate_triangular_arbitrage starts from a fresh harness (or
\* from the injected snapshot): the swaps one path committed never change the
\* starting state of another, and each path of a list gets the profit or error
\* it gets when it is evaluated alone.
C3_PathIndependence ==
    /\ \A i \in 1 .. Len(arbResults) : arbResults[i] = ArbAlone(i)
    /\ (arbPc = "hops" /\ arbHop = 0) =>
          View(dbs[hdb["B"]]) = View(ArbSetup(EmptyCache, ArbOf(arbIdx),
                                     IF arbIn.fork THEN SomeDb(ArbSnapshot) ELSE NoneDb))
    /\ arbIn.fork => dbs[snap] = snapCache

\* the second path of a list starts after the first one committed all its hops
C3_Witness ==
    /\ arbPc = "done"
    /\ ~arbIn.fork
    /\ Len(arbResults) = 2
    /\ arbResults[1].ok /\ arbResults[2].ok
    /\ Len(arbResults[1].log) = 3
    /\ arbIn.paths[1].pools[1] = arbIn.paths[2].pools[1]
    /\ arbIn.paths[1] # arbIn.paths[2]


----------------------------------------------------------------------------
(* get_touched_pools (strategy.rs:28-143) *)

\* the cell keccak256(abi_encode(pool, slot)) in the storage of safe_token
PoolCell(safe_token, pool, slot) == <<safe_token, BalKey(pool, slot)>>

\* the cells a trace may report: a storage map holds a value or Absent for each
TraceCells == {PoolCell(t, p, sl) : t \in SafeTokenSet, p \in Pools, sl \in Slots}

TraceStorage(f) == [c \in TraceCells |-> IF c \in DOMAIN f THEN f[c] ELSE Absent]

\* a prestate trace in diff mode: the accounts of diff.post, and the storage
\* cells of diff.pre and diff.post
DiffTrace(keys, pre, post) ==
    [kind |-> "diff", post_keys |-> keys, pre |-> TraceStorage(pre), post |-> TraceStorage(post)]

\* Step 1: the accounts of diff.post that verified_pools_map holds
TouchedAnyPool(trace, verified) == {acc \in trace.post_keys : acc \in Pools}
TouchedPools(trace, verified) == {acc \in trace.post_keys : acc \in verified}

\* Step 2, one safe token after the other in the order the HashMap yields them:
\* a later insert replaces an earlier one; an unwrap of a missing post entry
\* or of a missing balance slot panics
RECURSIVE DirectionWalk(_, _, _, _)
DirectionWalk(trace, touched, order, acc) ==
    IF order = <<>> \/ acc.panic THEN acc
    ELSE LET safe_token == Head(order)
             known == safe_token \in DOMAIN balance_slots
             cell(p) == PoolCell(safe_token, p, balance_slots[safe_token])
             pre_has(p) == known /\ trace.pre[cell(p)] # Absent
             bad == \/ ~known /\ \E c \in TraceCells : c[1] = safe_token /\ trace.pre[c] # Absent
                    \/ \E p \in touched : pre_has(p) /\ trace.post[cell(p)] = Absent
             up(p) == pre_has(p) /\ trace.pre[cell(p)] < trace.post[cell(p)]
         IN  DirectionWalk(trace, touched, Tail(order),
                 [ panic |-> bad,
                   map |-> [p \in touched |->
                              IF ~bad /\ up(p) THEN safe_token ELSE acc.map[p]] ])

\* the Result<HashMap<H160, Option<H160>>>, or the panic
get_touched_pools(trace, verified, order) ==
    IF trace.kind = "err" THEN [status |-> "err", map |-> <<>>]
    ELSE IF trace.kind # "diff" THEN [status |-> "ok", map |-> <<>>]
    ELSE LET touched == TouchedPools(trace, verified)
             w == DirectionWalk(trace, touched, order,
                      [panic |-> FALSE, map |-> [p \in touched |-> NoneToken]])
         IN  IF w.panic THEN [status |-> "panic", map |-> <<>>]
             ELSE [status |-> "ok", map |-> w.map]

----------------------------------------------------------------------------
(* SpecEvents: the loop of event_handler (strategy.rs:199-290) *)

\* max_fee_per_gas of a legacy transaction: None
NoneFee == -1

\* tx.max_fee_per_gas.unwrap_or_default()
MaxFee(tx) == IF tx.max_fee_per_gas = NoneFee THEN 0 ELSE tx.max_fee_per_gas

base_fee_condition_next(tx, block) == MaxFee(tx) < block.next_base_fee
\* a gate that prices a legacy transaction by its gas_price
base_fee_condition_gas_price(tx, block) ==
    (IF tx.max_fee_per_gas = NoneFee THEN tx.gas_price ELSE tx.max_fee_per_gas) < block.base_fee

base_fee_condition(tx, block) == MaxFee(tx) < block.base_fee

\* Event::Block payloads, and the block event_handler fetched at startup
EventBlocks ==
    { [block_number |-> 1, base_fee |-> 3, next_base_fee |-> 2],
      [block_number |-> 2, base_fee |-> 2, next_base_fee |-> 3],
      [block_number |-> 3, base_fee |-> 0, next_base_fee |-> 1] }

\* what debug_traceCall may answer for a pending transaction
EventTraces ==
    { \* WETH -> TKA on P0, and TKA -> WETH on P0
      DiffTrace({"owner", "P0", "WETH", "TKA"},
                PoolCell("WETH", "P0", 0) :> 1000, PoolCell("WETH", "P0", 0) :> 1200),
      DiffTrace({"owner", "P0", "WETH", "TKA"},
                PoolCell("WETH", "P0", 0) :> 1000, PoolCell("WETH", "P0", 0) :> 834),
      \* WETH -> USDT on P2, whose two tokens are safe tokens
      DiffTrace({"owner", "P2", "WETH", "USDT"},
                PoolCell("WETH", "P2", 0) :> 1000 @@ PoolCell("USDT", "P2", 0) :> 1000,
                PoolCell("WETH", "P2", 0) :> 1200 @@ PoolCell("USDT", "P2", 0) :> 834),
      \* liquidity added to P2
      DiffTrace({"owner", "P2", "WETH", "USDT"},
                PoolCell("WETH", "P2", 0) :> 1000 @@ PoolCell("USDT", "P2", 0) :> 1000,
                PoolCell("WETH", "P2", 0) :> 1100 @@ PoolCell("USDT", "P2", 0) :> 1100),
      \* USDT -> TKA on P3, then TKA -> WETH on P0
      DiffTrace({"owner", "P3", "P0", "WETH", "USDT", "TKA"},
                PoolCell("USDT", "P3", 0) :> 1000 @@ PoolCell("WETH", "P0", 0) :> 1000,
                PoolCell("USDT", "P3", 0) :> 1200 @@ PoolCell("WETH", "P0", 0) :> 860),
      \* a transfer between two accounts: no pool in diff.post
      DiffTrace({"owner", "WETH"}, <<>>, <<>>),
      \* sync() on P1: the pool changes, no token balance does
      DiffTrace({"owner", "P1"}, <<>>, <<>>),
      \* a cell of WETH other than the balance of P0 grows
      DiffTrace({"owner", "P0", "WETH"},
                PoolCell("WETH", "P0", MaxSlot) :> 10, PoolCell("WETH", "P0", MaxSlot) :> 20),
      \* the balance of P0 goes to zero: diff mode leaves the cell out of post
      DiffTrace({"owner", "P0", "TKA"}, PoolCell("WETH", "P0", 0) :> 1000, <<>>),
      [DiffTrace({}, <<>>, <<>>) EXCEPT !.kind = "default"],
      [DiffTrace({}, <<>>, <<>>) EXCEPT !.kind = "err"] }

EventTxs ==
    [ max_fee_per_gas : {NoneFee, 2, 3}, gas_price : {2, 5}, trace : EventTraces,
      meat : {PendingSwap("P0", "WETH", 200, 0)} ]

\* the orders in which a HashMap may yield the safe tokens
SafeTokenOrders ==
    {o \in [1 .. Cardinality(SafeTokenSet) -> SafeTokenSet] :
        \A i, j \in DOMAIN o : i # j => o[i] # o[j]}

InitEvents ==
    /\ chain = BaseChain
    /\ safe_token_info = [t \in SafeTokenSet |-> Token(t)]
    /\ balance_slots = [t \in SafeTokenSet |-> chain.slot[t]]
    /\ new_block \in EventBlocks
    /\ lastBlock = new_block
    /\ verified_pools_map \in {ListedPools, ListedPools \ {"P0"}}
    /\ ev = [kind |-> "none"]
    /\ evOut = [kind |-> "none"]
    /\ evPc = "recv"
    /\ HarnessIdle
    /\ SandwichIdle
    /\ ArbIdle
    /\ HoneyIdle
    /\ SetupIdle
    /\ BusIdle
    /\ ProxyIdle
    /\ EnvIdle

evFrame == <<chain, harnessVars, filterVars, sandwichVars, arbVars, honeyVars, setupVars, busVars, proxyVars, envVars,
             verified_pools_map>>

\* a Block arm that keeps the block fetched at startup
EvBlockStale ==
    /\ evPc = "recv"
    /\ \E block \in EventBlocks :
        /\ lastBlock' = block
        /\ ev' = [kind |-> "Block", block |-> block]
    /\ evOut' = [kind |-> "block"]
    /\ UNCHANGED <<evFrame, evPc, new_block>>

\* Event::Block(block)
EvBlock ==
    /\ evPc = "recv"
    /\ \E block \in EventBlocks :
        /\ new_block' = block
        /\ lastBlock' = block
        /\ ev' = [kind |-> "Block", block |-> block]
    /\ evOut' = [kind |-> "block"]
    /\ UNCHANGED <<evFrame, evPc>>

\* Event::PendingTx(tx) that the base-fee condition discards
EvPendingSkip ==
    /\ evPc = "recv"
    /\ \E tx \in EventTxs :
        /\ base_fee_condition(tx, new_block)
        /\ ev' = [kind |-> "PendingTx", tx |-> tx]
    /\ evOut' = [kind |-> "skipped", traced |-> FALSE, status |-> "none",
                 map |-> <<>>, bundles |-> <<>>]
    /\ UNCHANGED <<evFrame, new_block, lastBlock, evPc>>

\* the bundle event_handler simulates for an entry Some(safe_token)
EventSandwich(tx, touched_pool, safe_token) ==
    [ amount_in |-> 1 * Pow10(safe_token_info[safe_token].decimals),
      balance_slot |-> balance_slots[safe_token],
      target_token |-> safe_token_info[safe_token],
      target_pool |-> Pool(touched_pool),
      meat_tx |-> tx.meat ]

\* Event::PendingTx(tx) that is traced, classified and simulated
EvPendingTx ==
    /\ evPc = "recv"
    /\ \E tx \in EventTxs, order \in SafeTokenOrders :
        /\ ~base_fee_condition(tx, new_block)
        /\ LET r == get_touched_pools(tx.trace, verified_pools_map, order)
               some == {p \in DOMAIN r.map : r.map[p] # NoneToken}
               bundles == [p \in some |->
                             simulate_sandwich_bundle(EventSandwich(tx, p, r.map[p]), NoneDb)]
           IN  /\ ev' = [kind |-> "PendingTx", tx |-> tx]
               /\ evOut' = [kind |-> "traced", traced |-> TRUE, status |-> r.status,
                            map |-> r.map, bundles |-> bundles]
               /\ evPc' = IF r.status = "panic" \/ \E p \in some : bundles[p].err = "panic"
                          THEN "panicked" ELSE "recv"
    /\ UNCHANGED <<evFrame, new_block, lastBlock>>

\* Event::Log(_), or recv() returning Err (the receiver lagged)
EvOther ==
    /\ evPc = "recv"
    /\ \E k \in {"Log", "RecvError"} : ev' = [kind |-> k]
    /\ evOut' = [kind |-> "ignored"]
    /\ UNCHANGED <<evFrame, new_block, lastBlock, evPc>>

NextEvents == EvBlock \/ EvPendingSkip \/ EvPendingTx \/ EvOther

SpecEvents == InitEvents /\ [][NextEvents]_vars

\* C4: whatever Block and PendingTx events came before, a pending transaction
\* whose max_fee_per_gas is below the base_fee of the Block event received last
\* (the startup block if none was received) is neither traced nor simulated, and
\* one whose max_fee_per_gas is at least that base_fee is traced.
C4_BaseFeeGate ==
    (ev.kind = "PendingTx" /\ ev.tx.max_fee_per_gas # NoneFee) =>
        /\ ev.tx.max_fee_per_gas < lastBlock.base_fee =>
              (~evOut.traced /\ evOut.bundles = <<>>)
        /\ ev.tx.max_fee_per_gas >= lastBlock.base_fee => evOut.traced

\* after a Block event lowered the base fee, a transaction that the startup
\* block's base fee would have discarded was traced and simulated
C4_Witness ==
    /\ ev.kind = "PendingTx"
    /\ ev.tx.max_fee_per_gas = 2
    /\ lastBlock.base_fee = 2
    /\ lastBlock.next_base_fee = 3
    /\ evOut.traced
    /\ evOut.bundles # <<>>


\* the trace shows the balance of safe_token that pool holds present in the
\* pre-state and strictly smaller than in the post-state
BalanceIncreases(trace, pool, safe_token) ==
    LET c == PoolCell(safe_token, pool, balance_slots[safe_token])
    IN  trace.pre[c] # Absent /\ trace.post[c] # Absent /\ trace.pre[c] < trace.post[c]

\* C5: for a touched verified pool P and a safe token S with a known balance
\* slot, get_touched_pools maps P to Some(S) exactly when the trace shows P's
\* balance of S present in the pre-state and strictly smaller than in the
\* post-state; for a swap of P's other token into S (P's balance of S is in the
\* pre-state and does not grow) P is mapped to None.
C5_DirectionInference ==
    (ev.kind = "PendingTx" /\ evOut.traced /\ evOut.status = "ok") =>
        \A P \in DOMAIN evOut.map : \A S \in DOMAIN balance_slots :
            /\ evOut.map[P] = S <=> BalanceIncreases(ev.tx.trace, P, S)
            /\ ( /\ ev.tx.trace.pre[PoolCell(S, P, balance_slots[S])] # Absent
                 /\ ~BalanceIncreases(ev.tx.trace, P, S)
                 /\ {Pool(P).token0, Pool(P).token1} \ {S} \subseteq TestTokens )
               => evOut.map[P] = NoneToken

\* C6: the key set of the map get_touched_pools returns is exactly the set of
\* accounts of the trace's post-state that are keys of verified_pools_map; with
\* an empty map no bundle is simulated; a bundle is simulated for a pool only
\* if its entry is Some(safe token).
C6_TouchedPoolDetection ==
    (ev.kind = "PendingTx" /\ evOut.traced /\ evOut.status = "ok") =>
        /\ DOMAIN evOut.map = ev.tx.trace.post_keys \cap verified_pools_map
        /\ DOMAIN evOut.map = {} => evOut.bundles = <<>>
        /\ \A p \in DOMAIN evOut.bundles :
              p \in DOMAIN evOut.map /\ evOut.map[p] \in SafeTokenSet

\* a transaction through two verified pools: one entry is Some and gets a
\* bundle, the other is None and gets none; the other accounts of the
\* post-state are not keys
C6_Witness ==
    /\ ev.kind = "PendingTx" /\ evOut.traced /\ evOut.status = "ok"
    /\ DOMAIN evOut.map = {"P0", "P3"}
    /\ evOut.map["P0"] = NoneToken
    /\ DOMAIN evOut.bundles = {"P3"}
    /\ evOut.bundles["P3"].ok
    /\ "owner" \in ev.tx.trace.post_keys


----------------------------------------------------------------------------
(* SpecHoneypot: HoneypotFilter::filter_tokens (honeypot.rs:112-269) *)

MaxPools == 3       \* pools handed to filter_tokens

\* one whole token for every safe token
ProbeNotionalOne(safe_token) == 1

\* amount_in_u32: the notional of the probe, in whole safe tokens
ProbeNotional(safe_token) ==
    IF safe_token = SafeTokens.weth THEN 20
    ELSE IF safe_token \in {SafeTokens.usdt, SafeTokens.usdc, SafeTokens.dai} THEN 10000
    ELSE 1

\* the test a swap's (expected, actual) pair has to pass
WithinTenPercent(out) == (out[1] - out[2]) * 10 < out[1]
PairPasses(out) == out[1] = out[2]

\* HashMap::insert
MapInsert(m, k, v) == [x \in DOMAIN m \cup {k} |-> IF x = k THEN v ELSE m[x]]

\* after the Err arm of a swap: the loop continues with the next pool
AbortPass(idx) == [pc |-> "failed", idx |-> idx]
ContinuePass(idx) == [pc |-> "loop", idx |-> idx + 1]

\* (safe_token, test_token) of a pool with one safe token
ProbeTokens(pool) ==
    IF pool.token0 \in DOMAIN safe_token_info
    THEN <<pool.token0, pool.token1>> ELSE <<pool.token1, pool.token0>>

\* a pool of two safe tokens is not passed over
ProbeSkippedUnpaired(pool) ==
    \/ pool.token0 \notin DOMAIN safe_token_info /\ pool.token1 \notin DOMAIN safe_token_info
    \/ ProbeTokens(pool)[2] \in DOMAIN token_info
    \/ ProbeTokens(pool)[2] \in DOMAIN honeypot

\* the pool is passed over: two safe tokens, none, or a test token already known
ProbeSkipped(pool) ==
    LET s0 == pool.token0 \in DOMAIN safe_token_info
        s1 == pool.token1 \in DOMAIN safe_token_info
    IN  \/ s0 /\ s1
        \/ ~s0 /\ ~s1
        \/ ProbeTokens(pool)[2] \in DOMAIN token_info
        \/ ProbeTokens(pool)[2] \in DOMAIN honeypot

ProbeEntry(idx, side, test_token, res) ==
    [idx |-> idx, side |-> side, token |-> test_token, ok |-> res.ok, out |-> res.out]

\* decimals 0 except for WETH keep 10000 units of a stablecoin inside the integers
HoneyChain ==
    [BaseChain EXCEPT !.decimals = [t \in Tokens |-> IF t = "WETH" THEN 1 ELSE 0],
                      !.res["P3"] = <<100, 100>>]

HoneyChains ==
    {[HoneyChain EXCEPT !.tax["TKA"] = x] : x \in {0, 1, 5, 9, 50}}
    \cup {[HoneyChain EXCEPT !.fault["TKA"] = f] :
              f \in {"rpc", "halt", "sell_revert", "buy_revert"}}
    \cup {[HoneyChain EXCEPT !.tax["USDT"] = 5], [HoneyChain EXCEPT !.info["TKA"] = FALSE],
          [HoneyChain EXCEPT !.decimals["TKA"] = 40]}

\* the row Token::cache_row serialises and Token::from parses back
cache_row(info) == <<info.address, info.decimals>>

\* the rows a csv writer leaves when it iterates a HashMap with keys S: one row
\* per key, no header row, in any order
RowOrders(S) ==
    {r \in [1 .. Cardinality(S) -> S] : \A i, j \in DOMAIN r : r[i] = r[j] => i = j}

\* all rows of a file
Range(rows) == {rows[i] : i \in 1 .. Len(rows)}

\* csv::Reader::from_path(..).records(): has_headers is on by default, so the
\* first row of the file is taken as the header and is not yielded
Records(rows) == {rows[i] : i \in 2 .. Len(rows)}

\* what the two csv files hold before the first pass
HoneyCaches ==
    { [tokens |-> <<>>, honeypot |-> <<>>],
      [tokens |-> <<cache_row(Token("TKA")), cache_row(Token("TKB"))>>, honeypot |-> <<>>],
      [tokens |-> <<>>, honeypot |-> <<"TKA", "TKB">>] }

\* Token::from on a row of the token file: the address parses and the decimals
\* field parses as u8; every csv row has the fields of the first row
ParseableToken(row) == row[1] \in Tokens /\ row[2] \in 0 .. 255

\* H160::from_str on a row of the honeypot file
ParseableAddress(row) == row \in Tokens

\* files a run may find: none, rows that are not a token or an address after
\* the first row, or such a row as the first row
CorruptCaches ==
    { [tokens |-> <<>>, honeypot |-> <<>>],
      [tokens |-> <<cache_row(Token("TKB")), <<"0xZZ", 0>>>>, honeypot |-> <<>>],
      [tokens |-> <<cache_row(Token("TKB")), <<"TKA", 256>>>>, honeypot |-> <<>>],
      [tokens |-> <<>>, honeypot |-> <<"TKB", "0xZZ">>],
      [tokens |-> <<<<"0xZZ", 0>>, cache_row(Token("TKA"))>>, honeypot |-> <<>>] }

InitHoneypotWith(chains, caches) ==
    /\ chain \in chains
    /\ safe_token_info = [t \in SafeTokenSet |-> Token(t)]
    /\ balance_slots = [t \in SafeTokenSet |-> chain.slot[t]]
    /\ token_info = <<>>
    /\ honeypot = <<>>
    /\ hpIn \in UNION {[1 .. n -> {Pool(p) : p \in ListedPools \cup {"P6"}}] :
                          n \in 1 .. MaxPools}
    /\ hpPc = "start"
    /\ hpIdx = 0
    /\ hpOut = <<0, 0>>
    /\ hpLog = <<>>
    /\ cacheFiles \in caches
    /\ dbs = [i \in DbIds |-> EmptyCache]
    /\ live = {0}
    /\ hdb = [h \in Harness |-> IF h = "A" THEN 0 ELSE NoDb]
    /\ snap = NoDb
    /\ snapCache = EmptyCache
    /\ snapView = EmptyCache
    /\ lastOp = [op |-> "new", h |-> "A", dirty |-> FALSE]
    /\ steps = 0
    /\ SandwichIdle
    /\ ArbIdle
    /\ EventIdle
    /\ SetupIdle
    /\ BusIdle
    /\ ProxyIdle
    /\ EnvIdle

InitHoneypot == InitHoneypotWith(HoneyChains, HoneyCaches)

hpFrame ==
    <<chain, filterVars, sandwichVars, arbVars, eventVars, setupVars, busVars, proxyVars, envVars, hpIn,
      live, hdb, snap, snapCache, snapView, lastOp, steps>>

\* the cached rows are loaded, the simulator contract is deployed
HpStart ==
    /\ hpPc = "start"
    /\ IF /\ \A row \in Records(cacheFiles.tokens) : ParseableToken(row)
          /\ \A row \in Records(cacheFiles.honeypot) : ParseableAddress(row)
       THEN /\ token_info' =
                 [t \in {row[1] : row \in Records(cacheFiles.tokens)} |->
                     LET row == CHOOSE r \in Records(cacheFiles.tokens) : r[1] = t
                     IN  [address |-> row[1], decimals |-> row[2]]]
            /\ honeypot' = [t \in Records(cacheFiles.honeypot) |-> TRUE]
            /\ dbs' = [dbs EXCEPT ![hdb["A"]] = deploy_simulator(@)]
            /\ hpPc' = "loop"
            /\ hpIdx' = 1
       ELSE \* an unwrap on the row panics
            /\ hpPc' = "panicked"
            /\ UNCHANGED <<token_info, honeypot, dbs, hpIdx>>
    /\ UNCHANGED <<hpFrame, hpOut, hpLog, cacheFiles>>

\* continue
HpSkip ==
    /\ hpPc = "loop"
    /\ hpIdx <= Len(hpIn)
    /\ ProbeSkipped(hpIn[hpIdx])
    /\ hpIdx' = hpIdx + 1
    /\ UNCHANGED <<hpFrame, dbs, token_info, honeypot, hpPc, hpOut, hpLog, cacheFiles>>

\* the simulator is seeded with the notional; Buy Test
HpBuy ==
    /\ hpPc = "loop"
    /\ hpIdx <= Len(hpIn)
    /\ ~ProbeSkipped(hpIn[hpIdx])
    /\ LET pool == hpIn[hpIdx]
           safe_token == ProbeTokens(pool)[1]
           test_token == ProbeTokens(pool)[2]
           amount_in_u32 == ProbeNotional(safe_token)
           seeded == set_token_balance(dbs[hdb["A"]], "simulator", safe_token,
                                       safe_token_info[safe_token].decimals,
                                       balance_slots[safe_token], amount_in_u32)
           amount_in == amount_in_u32 * Pow10(safe_token_info[safe_token].decimals)
           buy_output == v2_simulate_swap(seeded, amount_in, pool.address,
                                          safe_token, test_token, TRUE)
       IN  /\ dbs' = [dbs EXCEPT ![hdb["A"]] = buy_output.db]
           /\ hpLog' = Append(hpLog, ProbeEntry(hpIdx, "buy", test_token, buy_output.res))
           /\ IF ~buy_output.res.ok
              THEN /\ honeypot' = MapInsert(honeypot, test_token, TRUE)
                   /\ hpPc' = ContinuePass(hpIdx).pc
                   /\ hpIdx' = ContinuePass(hpIdx).idx
                   /\ UNCHANGED hpOut
              ELSE IF PairPasses(buy_output.res.out)
              THEN /\ hpOut' = buy_output.res.out
                   /\ hpPc' = "sell"
                   /\ UNCHANGED <<honeypot, hpIdx>>
              ELSE /\ honeypot' = MapInsert(honeypot, test_token, TRUE)
                   /\ hpIdx' = hpIdx + 1
                   /\ UNCHANGED <<hpPc, hpOut>>
    /\ UNCHANGED <<hpFrame, token_info, cacheFiles>>

\* Sell Test, then the verdict
HpSell ==
    /\ hpPc = "sell"
    /\ LET pool == hpIn[hpIdx]
           safe_token == ProbeTokens(pool)[1]
           test_token == ProbeTokens(pool)[2]
           sell_output == v2_simulate_swap(dbs[hdb["A"]], hpOut[2], pool.address,
                                           test_token, safe_token, TRUE)
       IN  /\ dbs' = [dbs EXCEPT ![hdb["A"]] = sell_output.db]
           /\ hpLog' = Append(hpLog, ProbeEntry(hpIdx, "sell", test_token, sell_output.res))
           /\ IF ~sell_output.res.ok
              THEN /\ honeypot' = MapInsert(honeypot, test_token, TRUE)
                   /\ hpPc' = ContinuePass(hpIdx).pc
                   /\ hpIdx' = ContinuePass(hpIdx).idx
                   /\ UNCHANGED token_info
              ELSE /\ hpPc' = "loop"
                   /\ hpIdx' = hpIdx + 1
                   /\ IF ~PairPasses(sell_output.res.out)
                      THEN /\ honeypot' = MapInsert(honeypot, test_token, TRUE)
                           /\ UNCHANGED token_info
                      ELSE /\ token_info' = IF chain.info[test_token]
                                            THEN MapInsert(token_info, test_token, Token(test_token))
                                            ELSE token_info
                           /\ UNCHANGED honeypot
    /\ UNCHANGED <<hpFrame, hpOut, cacheFiles>>

\* cache to csv files
HpWrite ==
    /\ hpPc = "loop"
    /\ hpIdx > Len(hpIn)
    /\ \E tr \in RowOrders(DOMAIN token_info), hr \in RowOrders(DOMAIN honeypot) :
          cacheFiles' = [tokens |-> [i \in DOMAIN tr |-> cache_row(token_info[tr[i]])],
                         honeypot |-> hr]
    /\ hpPc' = "done"
    /\ UNCHANGED <<hpFrame, dbs, token_info, honeypot, hpIdx, hpOut, hpLog>>

\* the next run of the program: a new HoneypotFilter over a new fork database,
\* the csv files are what the last pass wrote
HpNextRun ==
    /\ hpPc = "done"
    /\ token_info' = <<>>
    /\ honeypot' = <<>>
    /\ dbs' = [dbs EXCEPT ![hdb["A"]] = EmptyCache]
    /\ hpPc' = "start"
    /\ hpIdx' = 0
    /\ hpOut' = <<0, 0>>
    /\ hpLog' = <<>>
    /\ UNCHANGED <<hpFrame, cacheFiles>>

NextHoneypot == HpStart \/ HpSkip \/ HpBuy \/ HpSell \/ HpWrite \/ HpNextRun

SpecHoneypot == InitHoneypot /\ [][NextHoneypot]_vars


\* the swap of the given side of the probe at position k of the pool list
ProbeSwap(k, side) ==
    hpLog[CHOOSE i \in 1 .. Len(hpLog) : hpLog[i].idx = k /\ hpLog[i].side = side]

ProbeSold(k) == \E i \in 1 .. Len(hpLog) : hpLog[i].idx = k /\ hpLog[i].side = "sell"

\* of the probes that ran to their verdict, the last one of each test token:
\* its verdict is the one the sets hold
ProbesLast ==
    LET done == {hpLog[i].idx : i \in 1 .. Len(hpLog)} \cap 1 .. (hpIdx - 1)
    IN  {k \in done :
            \A j \in done : ProbeSwap(j, "buy").token = ProbeSwap(k, "buy").token => j <= k}

\* tax = (expected - actual) / expected of a swap's pair is at least 10%
TaxAtLeastTenPercent(out) == (out[1] - out[2]) * 10 >= out[1]

\* C9 as claimed: a probed test token is marked honeypot if and only if the buy
\* reverts, buy_tax >= 10%, the sell reverts, or sell_tax >= 10%; a token whose
\* buy and sell succeed with taxes below 10% is admitted to the verified set.
C9_HoneypotThreshold ==
    \A k \in ProbesLast :
        LET buy == ProbeSwap(k, "buy")
            fails == \/ ~buy.ok
                     \/ TaxAtLeastTenPercent(buy.out)
                     \/ ProbeSold(k) /\ ~ProbeSwap(k, "sell").ok
                     \/ ProbeSold(k) /\ TaxAtLeastTenPercent(ProbeSwap(k, "sell").out)
        IN  /\ buy.token \in DOMAIN honeypot <=> fails
            /\ ~fails => buy.token \in DOMAIN token_info

\* C9 amended: a probed test token is marked honeypot if and only if the buy
\* fails, the buy's actual output differs from the expected one, the sell fails,
\* or the sell's actual output differs from the expected one (any tax above
\* zero); a token that passes both swaps with equal pairs is admitted to the
\* verified set when get_token_info succeeds, and is left in neither set when
\* it fails.
C9_ZeroTolerance ==
    \A k \in ProbesLast :
        LET buy == ProbeSwap(k, "buy")
            fails == \/ ~buy.ok
                     \/ buy.out[1] # buy.out[2]
                     \/ ProbeSold(k) /\ ~ProbeSwap(k, "sell").ok
                     \/ ProbeSold(k) /\ ProbeSwap(k, "sell").out[1] # ProbeSwap(k, "sell").out[2]
        IN  /\ buy.token \in DOMAIN honeypot <=> fails
            /\ ~fails => ProbeSold(k)
            /\ buy.token \in DOMAIN token_info <=> (~fails /\ chain.info[buy.token])

\* a pass in which a token with a buy tax above zero and below 10% was marked
\* honeypot and another token was admitted
C9_Witness ==
    /\ hpPc = "done"
    /\ \E i \in 1 .. Len(hpLog) :
        /\ hpLog[i].side = "buy" /\ hpLog[i].ok
        /\ hpLog[i].out[2] < hpLog[i].out[1]
        /\ ~TaxAtLeastTenPercent(hpLog[i].out)
        /\ hpLog[i].token \in DOMAIN honeypot
    /\ \E i \in 1 .. Len(hpLog) :
        hpLog[i].side = "sell" /\ hpLog[i].token \in DOMAIN token_info

\* C10: a buy or sell swap that returns an error is never fatal: the test token
\* is recorded in the honeypot set, no further swap runs for that pool (nor
\* for that token), the loop goes on with the next pool, and the pass reaches
\* the step that writes both caches.
C10_FailedSwapNotFatal ==
    /\ \A i \in 1 .. Len(hpLog) : ~hpLog[i].ok =>
        /\ hpLog[i].token \in DOMAIN honeypot
        /\ hpIdx > hpLog[i].idx
        /\ \A j \in (i + 1) .. Len(hpLog) :
              hpLog[j].idx > hpLog[i].idx /\ hpLog[j].token # hpLog[i].token
    /\ hpPc \in {"start", "loop", "sell", "done"}
    /\ hpPc = "loop" => hpIdx \in 1 .. (Len(hpIn) + 1)
    /\ hpPc = "sell" => hpIdx \in 1 .. Len(hpIn)
    /\ hpPc = "done" =>
        /\ {row[1] : row \in Range(cacheFiles.tokens)} = DOMAIN token_info
        /\ Range(cacheFiles.honeypot) = DOMAIN honeypot
        /\ \A i \in 1 .. Len(hpLog) :
              ~hpLog[i].ok => hpLog[i].token \in Range(cacheFiles.honeypot)

\* a pass whose sell test failed, that went on to probe a later pool and wrote
\* the caches
C10_Witness ==
    /\ hpPc = "done"
    /\ \E i \in 1 .. Len(hpLog) :
        /\ hpLog[i].side = "sell" /\ ~hpLog[i].ok
        /\ i < Len(hpLog)
        /\ hpLog[i].token \in Range(cacheFiles.honeypot)


\* the pool pairs test token t with a safe token
PairsWithSafe(pool, t) ==
    /\ t \notin DOMAIN safe_token_info
    /\ \/ pool.token0 = t /\ pool.token1 \in DOMAIN safe_token_info
       \/ pool.token1 = t /\ pool.token0 \in DOMAIN safe_token_info

\* C11: during filter_tokens no balance is seeded and no swap runs for a test
\* token that is already in token_info or in the honeypot set; both sets only
\* grow and a recorded verdict never changes; so every test token is probed at
\* most once per pass, by the first pool in input order that pairs it with a
\* safe token.
C11_ProbeIdempotence ==
    [][ /\ (dbs' # dbs /\ hpPc = "loop") => Len(hpLog') > Len(hpLog)
        /\ (Len(hpLog') > Len(hpLog) /\ hpLog'[Len(hpLog')].side = "buy") =>
              LET e == hpLog'[Len(hpLog')] IN
              /\ e.token \notin DOMAIN token_info \cup DOMAIN honeypot
              /\ \A i \in 1 .. Len(hpLog) : hpLog[i].token # e.token
              /\ \A k \in 1 .. (e.idx - 1) : ~PairsWithSafe(hpIn[k], e.token)
        /\ hpPc \in {"loop", "sell"} =>
              /\ \A t \in DOMAIN token_info :
                    t \in DOMAIN token_info' /\ token_info'[t] = token_info[t]
              /\ \A t \in DOMAIN honeypot :
                    t \in DOMAIN honeypot' /\ honeypot'[t] = honeypot[t]
      ]_vars


\* C12: every token a pass writes to a cache file is, on the next run, in the
\* corresponding in-memory set before the probing loop starts: the set loaded
\* equals the set written, and no token of either cache file is probed again.
C12_CacheRehydration ==
    hpPc \in {"loop", "sell"} =>
        /\ {row[1] : row \in Range(cacheFiles.tokens)} \subseteq DOMAIN token_info
        /\ Range(cacheFiles.honeypot) \subseteq DOMAIN honeypot
        /\ hpLog = <<>> =>
              /\ DOMAIN token_info = {row[1] : row \in Range(cacheFiles.tokens)}
              /\ DOMAIN honeypot = Range(cacheFiles.honeypot)
        /\ \A i \in 1 .. Len(hpLog) :
              /\ hpLog[i].token \notin {row[1] : row \in Range(cacheFiles.tokens)}
              /\ hpLog[i].token \notin Range(cacheFiles.honeypot)


----------------------------------------------------------------------------
(* HoneypotFilter::setup and EvmTracer::find_balance_slot *)

SlotProbes == 20

\* what debug_traceCall of balanceOf(owner) may return for a token: a prestate
\* frame (the accounts it reports, and for the token account whether it has a
\* storage map and its keys), another frame, or an error
SetupFrames(token) ==
    {[kind |-> "default", accounts |-> {token, "owner"}, has_storage |-> TRUE, storage |-> keys] :
        keys \in { {BalKey("owner", 0)},
                   {BalKey("owner", 1), BalKey("owner", 5)},
                   {BalKey("owner", SlotProbes - 1), BalKey("simulator", 0)},
                   {BalKey("owner", SlotProbes)},
                   {} }}
    \cup {[kind |-> "default", accounts |-> {token, "owner"}, has_storage |-> FALSE, storage |-> {}],
          [kind |-> "default", accounts |-> {"owner"}, has_storage |-> FALSE, storage |-> {}],
          [kind |-> "diff", accounts |-> {}, has_storage |-> FALSE, storage |-> {}],
          [kind |-> "rpc_err", accounts |-> {}, has_storage |-> FALSE, storage |-> {}]}

find_last_slot(trace, token, owner) ==
    LET hits == {i \in 0 .. (SlotProbes - 1) : BalKey(owner, i) \in trace.storage}
    IN  IF trace.kind = "rpc_err" THEN [status |-> "panic", found |-> FALSE, slot |-> 0]
        ELSE IF trace.kind = "default" /\ (token \notin trace.accounts \/ ~trace.has_storage)
        THEN [status |-> "err", found |-> FALSE, slot |-> 0]
        ELSE IF trace.kind = "default" /\ hits # {}
        THEN [status |-> "ok", found |-> TRUE, slot |-> CHOOSE i \in hits : \A j \in hits : j <= i]
        ELSE [status |-> "ok", found |-> FALSE, slot |-> 0]

find_balance_slot(trace, token, owner) ==
    LET RECURSIVE Scan(_)
        Scan(i) ==
            IF i >= SlotProbes THEN [status |-> "ok", found |-> FALSE, slot |-> 0]
            ELSE IF BalKey(owner, i) \in trace.storage
            THEN [status |-> "ok", found |-> TRUE, slot |-> i]
            ELSE Scan(i + 1)
    IN  IF trace.kind = "rpc_err" THEN [status |-> "panic", found |-> FALSE, slot |-> 0]
        ELSE IF trace.kind # "default" THEN [status |-> "ok", found |-> FALSE, slot |-> 0]
        ELSE IF token \notin trace.accounts THEN [status |-> "err", found |-> FALSE, slot |-> 0]
        ELSE IF ~trace.has_storage THEN [status |-> "err", found |-> FALSE, slot |-> 0]
        ELSE Scan(0)

SetupOrder == <<SafeTokens.usdt, SafeTokens.weth, SafeTokens.usdc, SafeTokens.dai>>

InitSetup ==
    /\ chain = BaseChain
    /\ FilterIdle
    /\ suPc = "loop"
    /\ suLog = <<>>
    /\ HarnessIdle
    /\ SandwichIdle
    /\ ArbIdle
    /\ EventIdle
    /\ HoneyIdle
    /\ BusIdle
    /\ ProxyIdle
    /\ EnvIdle

\* a turn that records the token info of a found token and not its slot
SuTokenInfoOnly ==
    /\ suPc = "loop"
    /\ Len(suLog) < Len(SetupOrder)
    /\ LET token == SetupOrder[Len(suLog) + 1] IN
       \E trace \in SetupFrames(token) :
          LET slot == find_balance_slot(trace, token, "owner")
          IN  /\ suLog' = Append(suLog, [token |-> token, trace |-> trace, res |-> slot])
              /\ IF slot.status = "panic"
                 THEN /\ suPc' = "panicked"
                      /\ UNCHANGED filterVars
                 ELSE IF slot.status = "ok" /\ slot.found
                 THEN /\ safe_token_info' = MapInsert(safe_token_info, token, Token(token))
                      /\ UNCHANGED <<suPc, balance_slots>>
                 ELSE UNCHANGED <<suPc, filterVars>>
    /\ UNCHANGED <<chain, harnessVars, sandwichVars, arbVars, eventVars, honeyVars, busVars,
                   proxyVars, envVars>>

\* one turn of the loop over usdt, weth, usdc, dai
SuToken ==
    /\ suPc = "loop"
    /\ Len(suLog) < Len(SetupOrder)
    /\ LET token == SetupOrder[Len(suLog) + 1] IN
       \E trace \in SetupFrames(token), info_ok \in BOOLEAN :
          LET slot == IF token \in DOMAIN safe_token_info
                      THEN [status |-> "skipped", found |-> FALSE, slot |-> 0]
                      ELSE find_balance_slot(trace, token, "owner")
          IN  /\ suLog' = Append(suLog, [token |-> token, trace |-> trace, res |-> slot])
              /\ IF slot.status = "panic"
                 THEN /\ suPc' = "panicked"
                      /\ UNCHANGED filterVars
                 ELSE IF slot.status = "ok" /\ slot.found
                 THEN /\ balance_slots' = MapInsert(balance_slots, token, slot.slot)
                      /\ IF info_ok
                         THEN /\ safe_token_info' = MapInsert(safe_token_info, token, Token(token))
                              /\ UNCHANGED suPc
                         ELSE /\ suPc' = "panicked"
                              /\ UNCHANGED safe_token_info
                 ELSE UNCHANGED <<suPc, filterVars>>
    /\ UNCHANGED <<chain, harnessVars, sandwichVars, arbVars, eventVars, honeyVars, busVars,
                   proxyVars, envVars>>

SuReturn ==
    /\ suPc = "loop"
    /\ Len(suLog) = Len(SetupOrder)
    /\ suPc' = "done"
    /\ UNCHANGED <<chain, harnessVars, filterVars, sandwichVars, arbVars, eventVars, honeyVars,
                   busVars, proxyVars, envVars, suLog>>

NextSetup == SuToken \/ SuReturn

SpecSetup == InitSetup /\ [][NextSetup]_vars

\* C13: when the trace reports a storage key set at the token address,
\* find_balance_slot returns (true, k) with k the smallest i in [0, 20) whose
\* key keccak256(abi_encode(owner, i)) is in that set, and (false, 0) when there
\* is none; a safe token whose discovery does not return (true, k) is in neither
\* balance_slots nor safe_token_info and no pool is probed with it as safe leg.
C13_BalanceSlotDiscovery ==
    \A n \in 1 .. Len(suLog) :
        LET e == suLog[n]
            reported == /\ e.trace.kind = "default"
                        /\ e.token \in e.trace.accounts
                        /\ e.trace.has_storage
            hits == {i \in 0 .. 19 : BalKey("owner", i) \in e.trace.storage}
        IN  /\ (reported /\ hits # {}) =>
                  /\ e.res.status = "ok" /\ e.res.found
                  /\ e.res.slot \in hits
                  /\ \A i \in hits : e.res.slot <= i
                  /\ balance_slots[e.token] = e.res.slot
            /\ (reported /\ hits = {}) =>
                  e.res = [status |-> "ok", found |-> FALSE, slot |-> 0]
            /\ ~(e.res.status = "ok" /\ e.res.found) =>
                  /\ e.token \notin DOMAIN balance_slots
                  /\ e.token \notin DOMAIN safe_token_info
                  /\ \A p \in Pools :
                        ~ProbeSkipped(Pool(p)) => ProbeTokens(Pool(p))[1] # e.token

\* setup returned: USDT was found at the smaller of two matching slots, WETH's
\* trace matched no slot below 20, and the USDT/WETH pool is probed with USDT as
\* the safe leg
C13_Witness ==
    /\ suPc = "done"
    /\ suLog[1].res = [status |-> "ok", found |-> TRUE, slot |-> 1]
    /\ Cardinality(suLog[1].trace.storage) = 2
    /\ suLog[2].trace.storage = {BalKey("owner", SlotProbes)}
    /\ "WETH" \notin DOMAIN safe_token_info
    /\ ~ProbeSkipped(Pool("P2"))
    /\ ProbeTokens(Pool("P2")) = <<"USDT", "WETH">>


\* C14: simulate_triangular_arbitrage runs the hops n = 0 .. nhop-1 in order,
\* each a committed v2SimulateSwap on pool path[n] from token0 to token1 when
\* zero_for_one and from token1 to token0 otherwise; hop 0 swaps amount_in, hop
\* n+1 swaps the actual output (second result) of hop n, and the profit
\* returned is the last hop's actual output minus amount_in.
C14_ArbitrageWalk ==
    [][ /\ (arbLog' # arbLog /\ arbLog' # <<>>) =>
              LET n == Len(arbLog)
                  e == arbLog'[n + 1]
                  path == arbIn.paths[arbIdx]
                  pool == Pool(path.pools[n + 1])
              IN  /\ n = arbHop /\ n < path.nhop
                  /\ e.op = "swap" /\ e.pool = pool.address
                  /\ e.tin = IF path.zero_for_one[n + 1] THEN pool.token0 ELSE pool.token1
                  /\ e.tout = IF path.zero_for_one[n + 1] THEN pool.token1 ELSE pool.token0
                  /\ e.amount = IF n = 0 THEN arbIn.amount_in ELSE arbLog[n].out[2]
                  /\ e.ok => ReadRes(dbs'[hdb["B"]], e.pool) # ReadRes(dbs[hdb["B"]], e.pool)
        /\ Len(arbResults') > Len(arbResults) =>
              LET r == arbResults'[Len(arbResults')]
                  nhop == arbIn.paths[arbIdx].nhop
              IN  /\ r.log = arbLog'
                  /\ r.ok => /\ Len(r.log) = nhop
                             /\ \A n \in 1 .. nhop : r.log[n].ok
                             /\ r.profit = r.log[nhop].out[2] - arbIn.amount_in
                  /\ (~r.ok /\ r.err # "panic") =>
                        /\ ~r.log[Len(r.log)].ok
                        /\ \A n \in 1 .. (Len(r.log) - 1) : r.log[n].ok
      ]_vars

\* a three-hop path returned a profit after a hop whose actual output was below
\* the expected one, and the next hop swapped the actual output
C14_Witness ==
    \E i \in 1 .. Len(arbResults) :
        /\ arbResults[i].ok
        /\ Len(arbResults[i].log) = 3
        /\ \E n \in 1 .. 2 :
              /\ arbResults[i].log[n].out[2] < arbResults[i].log[n].out[1]
              /\ arbResults[i].log[n + 1].amount = arbResults[i].log[n].out[2]


\* C16: for every sequence of events delivered to event_handler, the block
\* number of new_block strictly increases each time a Block event is processed
\* and never decreases.
C16_MonotoneEpoch ==
    [][ /\ new_block'.block_number >= new_block.block_number
        /\ (ev'.kind = "Block" /\ ev' # ev) =>
              new_block'.block_number > new_block.block_number
      ]_vars

\* C19: no failure of a single work unit stops the event loop: after every
\* pending transaction, whatever its diff trace (one whose post-state lacks a
\* cell its pre-state holds included), a trace error or a failed bundle
\* simulation, event_handler is back at recv() for the next event, and a trace
\* that could not be classified simulates no bundle.
C19_WorkUnitFailureNotFatal ==
    /\ evPc = "recv"
    /\ (evOut.kind = "traced" /\ evOut.status # "ok") => DOMAIN evOut.bundles = {}


----------------------------------------------------------------------------
(* SpecBus: event_handler behind the broadcast channel (strategy.rs:187-290): *)
(* the producers send while the handler awaits a trace                       *)

MaxEvents == 5      \* events the producers send in one behaviour
BusCap == 2         \* capacity of the broadcast channel (512 in the program)

\* what the producers may send as event number seq when the chain head is head
BusEvents(seq, head) ==
    {[kind |-> "Block", seq |-> seq, tx |-> [max_fee_per_gas |-> 0],
      block |-> [block_number |-> head + 1, base_fee |-> 2, next_base_fee |-> 2]]}
    \cup {[kind |-> k, seq |-> seq, tx |-> [max_fee_per_gas |-> f],
           block |-> [block_number |-> 0, base_fee |-> 0, next_base_fee |-> 0]] :
              k \in {"PendingTx"}, f \in {1, 3}}
    \cup {[kind |-> "Log", seq |-> seq, tx |-> [max_fee_per_gas |-> 0],
           block |-> [block_number |-> 0, base_fee |-> 0, next_base_fee |-> 0]]}

NoJob == [seq |-> 0, epoch |-> 0, ticks |-> 0]

BusEntry(kind, seq, job) ==
    [kind |-> kind, seq |-> seq, epoch |-> job.epoch, head |-> busHead, ticks |-> job.ticks]

InitBus ==
    /\ chain = BaseChain
    /\ new_block = [block_number |-> 1, base_fee |-> 2, next_base_fee |-> 2]
    /\ verified_pools_map = {}
    /\ lastBlock = new_block
    /\ ev = [kind |-> "none"]
    /\ evOut = [kind |-> "none"]
    /\ evPc = "recv"
    /\ busBuf = <<>>
    /\ busLagged = 0
    /\ busSeq = 0
    /\ busHead = 1
    /\ busJob = NoJob
    /\ busLog = <<>>
    /\ HarnessIdle
    /\ FilterIdle
    /\ SandwichIdle
    /\ ArbIdle
    /\ HoneyIdle
    /\ SetupIdle
    /\ ProxyIdle
    /\ EnvIdle

busFrame ==
    <<chain, harnessVars, filterVars, sandwichVars, arbVars, honeyVars, setupVars, proxyVars, envVars,
      verified_pools_map, lastBlock, ev, evOut>>

\* Sender::send: the value takes the next slot of the ring; when the receiver
\* has not read the slot it overwrites, the receiver has missed one more event
BusSend ==
    /\ busSeq < MaxEvents
    /\ \E e \in BusEvents(busSeq + 1, busHead) :
        /\ busBuf' = IF Len(busBuf) < BusCap THEN Append(busBuf, e)
                     ELSE Append(Tail(busBuf), e)
        /\ busLagged' = IF Len(busBuf) < BusCap THEN busLagged ELSE busLagged + 1
        /\ busHead' = IF e.kind = "Block" THEN e.block.block_number ELSE busHead
        /\ busJob' = IF e.kind = "Block" /\ evPc = "trace"
                     THEN [busJob EXCEPT !.ticks = @ + 1] ELSE busJob
    /\ busSeq' = busSeq + 1
    /\ UNCHANGED <<busFrame, new_block, evPc, busLog>>

\* Err(_) => {}
StopOnRecvError == "stopped"
OnRecvError == "recv"

\* recv() returns Err(Lagged(n)); the receiver moves to the oldest retained event
BusRecvLag ==
    /\ evPc = "recv"
    /\ busLagged > 0
    /\ busLagged' = 0
    /\ busLog' = Append(busLog, BusEntry("lagged", busLagged, NoJob))
    /\ evPc' = OnRecvError
    /\ UNCHANGED <<busFrame, new_block, busBuf, busSeq, busHead, busJob>>

\* recv() returns Ok(event): the arms of the match up to the await of
\* get_touched_pools
BusRecvEvent ==
    /\ evPc = "recv"
    /\ busLagged = 0
    /\ busBuf # <<>>
    /\ LET event == Head(busBuf)
           traced == event.kind = "PendingTx" /\ ~base_fee_condition(event.tx, new_block)
       IN  /\ busBuf' = Tail(busBuf)
           /\ new_block' = IF event.kind = "Block" THEN event.block ELSE new_block
           /\ evPc' = IF traced THEN "trace" ELSE "recv"
           /\ busJob' = IF traced
                        THEN [seq |-> event.seq, epoch |-> new_block.block_number, ticks |-> 0]
                        ELSE busJob
           /\ busLog' = Append(busLog, BusEntry(event.kind, event.seq, NoJob))
    /\ UNCHANGED <<busFrame, busLagged, busSeq, busHead>>

\* get_touched_pools returns: the bundles are simulated and the profit is
\* logged, or the transaction is skipped, or an unwrap panics
BusClassified ==
    /\ evPc = "trace"
    /\ \E outcome \in {"profit", "skip", "panic"} :
        /\ busLog' = Append(busLog, BusEntry(outcome, busJob.seq, busJob))
        /\ evPc' = IF outcome = "panic" THEN "panicked" ELSE "recv"
    /\ busJob' = NoJob
    /\ UNCHANGED <<busFrame, new_block, busBuf, busLagged, busSeq, busHead>>

NextBus == BusSend \/ BusRecvLag \/ BusRecvEvent \/ BusClassified

SpecBus == InitBus /\ [][NextBus]_vars

\* C15: a classification result computed for a pending transaction under block
\* epoch e is discarded when the head epoch differs from e at the time the
\* result is available: no profit is reported for a result of an earlier epoch.
C15_Staleness ==
    \A i \in 1 .. Len(busLog) :
        busLog[i].kind = "profit" => busLog[i].epoch = busLog[i].head

\* C17: a classification that has not finished within one block interval is
\* cancelled and its results are discarded: none is still running, and none
\* reports, after two blocks were announced since it began.
C17_ClassificationDeadline ==
    /\ evPc = "trace" => busJob.ticks <= 1
    /\ \A i \in 1 .. Len(busLog) :
          busLog[i].kind \in {"profit", "skip"} => busLog[i].ticks <= 1

\* C18: when event_handler falls more than the capacity behind, the channel
\* keeps the newest events and drops the oldest, the producers can always
\* send, and the handler, after the receive error that reports the lag, is
\* receiving again and takes the retained events in their order of emission.
C18_LaggingSubscriber ==
    /\ Len(busBuf) <= BusCap
    /\ \A i \in 1 .. Len(busBuf) : busBuf[i].seq = busSeq - Len(busBuf) + i
    /\ busSeq < MaxEvents => ENABLED BusSend
    /\ (busLog # <<>> /\ busLog[Len(busLog)].kind = "lagged") => evPc = "recv"
    /\ \A i, j \in 1 .. Len(busLog) :
          (/\ i < j
           /\ busLog[i].kind \in {"Block", "PendingTx", "Log"}
           /\ busLog[j].kind \in {"Block", "PendingTx", "Log"})
          => busLog[i].seq < busLog[j].seq
    /\ LET RECURSIVE Missed(_)
           Missed(n) == IF n = 0 THEN 0
                        ELSE Missed(n - 1)
                             + (IF busLog[n].kind = "lagged" THEN busLog[n].seq ELSE 0)
           Received(n) ==
               Cardinality({m \in 1 .. n : busLog[m].kind \in {"Block", "PendingTx", "Log"}})
       IN  \A j \in 1 .. Len(busLog) :
               busLog[j].kind \in {"Block", "PendingTx", "Log"} =>
                   busLog[j].seq = Received(j) + Missed(j)

\* the producers sent three events while the handler awaited a trace; the
\* handler got the lag error and then received the two retained events in order
C18_Witness ==
    \E i \in 1 .. Len(busLog) :
        /\ busLog[i].kind = "lagged"
        /\ i + 2 <= Len(busLog)
        /\ busLog[i + 1].kind \in {"Block", "PendingTx", "Log"}
        /\ busLog[i + 2].kind \in {"Block", "PendingTx", "Log"}
        /\ busLog[i + 2].seq = busLog[i + 1].seq + 1


----------------------------------------------------------------------------
(* SpecProxy: get_implementation (tokens.rs:57-104): four storage reads race *)

ProxySlots ==
    {"eip_1967_logic_slot", "eip_1967_beacon_slot",
     "open_zeppelin_implementation_slot", "eip_1822_logic_slot"}

\* what get_storage_at may answer: an error, or a 32-byte word, here its upper
\* 12 bytes (hi) and its lower 20 bytes (lo)
ProbeResponses ==
    {r \in [ok : BOOLEAN, hi : {0, 1}, lo : {0, 1, 2}] : ~r.ok => (r.hi = 0 /\ r.lo = 0)}

InitProxy ==
    /\ chain = BaseChain
    /\ prResp \in [ProxySlots -> ProbeResponses]
    /\ prDone = <<>>
    /\ prRet = [kind |-> "pending", value |-> 0]
    /\ HarnessIdle
    /\ EnvIdle
    /\ FilterIdle
    /\ SandwichIdle
    /\ ArbIdle
    /\ EventIdle
    /\ HoneyIdle
    /\ SetupIdle
    /\ BusIdle

\* join_next yields the probe that completes next; out = res???, then
\* H160::from(out) keeps the lower 20 bytes of the word
PrJoinNext ==
    /\ prRet.kind = "pending"
    /\ \E slot \in ProxySlots \ Range(prDone) :
        LET out == prResp[slot]
            implementation == out.lo
        IN  /\ prDone' = Append(prDone, slot)
            /\ prRet' = IF ~out.ok THEN [kind |-> "Err", value |-> 0]
                        ELSE IF implementation # 0
                        THEN [kind |-> "Some", value |-> implementation]
                        ELSE prRet
    /\ UNCHANGED <<chain, harnessVars, filterVars, sandwichVars, arbVars, eventVars, honeyVars,
                   setupVars, busVars, envVars, prResp>>

\* join_next yields None: Ok(None)
PrReturnNone ==
    /\ prRet.kind = "pending"
    /\ Range(prDone) = ProxySlots
    /\ prRet' = [kind |-> "None", value |-> 0]
    /\ UNCHANGED <<chain, harnessVars, filterVars, sandwichVars, arbVars, eventVars, honeyVars,
                   setupVars, busVars, envVars, prResp, prDone>>

\* get_implementation has returned and its JoinSet is dropped: that aborts the
\* tasks of the set, which only await the JoinHandles of the reads; a read was
\* started by tokio::spawn, is detached when its handle is dropped and runs on
\* until the provider answers
PrDetachedRead ==
    /\ prRet.kind # "pending"
    /\ \E slot \in ProxySlots \ Range(prDone) : prDone' = Append(prDone, slot)
    /\ UNCHANGED <<chain, harnessVars, filterVars, sandwichVars, arbVars, eventVars, honeyVars,
                   setupVars, busVars, envVars, prResp, prRet>>

NextProxy == PrJoinNext \/ PrReturnNone \/ PrDetachedRead

SpecProxy == InitProxy /\ [][NextProxy]_vars

\* C20: for every completion order of the four probes, get_implementation
\* returns Some(a), a the value of the first probe to complete with a non-zero
\* response, whenever at least one probe answers non-zero, and None only when
\* all four answered zero.
C20_ProxyProbeRace ==
    prRet.kind \in {"Some", "None", "Err"} =>
        LET NonZero(slot) == prResp[slot].ok /\ (prResp[slot].hi # 0 \/ prResp[slot].lo # 0)
        IN  /\ (\E slot \in ProxySlots : NonZero(slot)) =>
                  /\ prRet.kind = "Some"
                  /\ \E n \in 1 .. Len(prDone) :
                        /\ NonZero(prDone[n])
                        /\ \A m \in 1 .. (n - 1) : ~NonZero(prDone[m])
                        /\ prRet.value = prResp[prDone[n]].lo
            /\ prRet.kind = "None" =>
                  \A slot \in ProxySlots : prResp[slot].ok /\ ~NonZero(slot)


\* e is (aIn * 997 * rOut) / (rIn * 1000 + aIn * 997) rounded down
IsAmountOut(e, aIn, rIn, rOut) ==
    /\ e * (rIn * 1000 + aIn * 997) <= aIn * 997 * rOut
    /\ aIn * 997 * rOut < (e + 1) * (rIn * 1000 + aIn * 997)

\* neither token of the pool takes a transfer tax or fails
CleanPool(pool) ==
    \A t \in {pool.token0, pool.token1} : chain.tax[t] = 0 /\ chain.fault[t] = "none"

\* the swaps of a probe on a clean pool: the buy of the notional a returns the
\* pair (e1, e1) with e1 the constant-product output before the buy, the sell
\* of e1 returns (e2, e2) with e2 the constant-product output on the reserves
\* the buy left, and e2 < a
CleanRoundTripMath ==
    (Len(hpLog') > Len(hpLog) /\ CleanPool(hpIn[hpIdx])) =>
        LET e == hpLog'[Len(hpLog')]
            pool == hpIn[hpIdx]
            safe_token == IF pool.token0 \in DOMAIN safe_token_info
                          THEN pool.token0 ELSE pool.token1
            a == (IF safe_token = "WETH" THEN 20 ELSE 10000)
                 * Pow10(safe_token_info[safe_token].decimals)
            r == ReadRes(dbs[hdb["A"]], pool.address)
            rSafe == IF safe_token = pool.token0 THEN r[1] ELSE r[2]
            rTest == IF safe_token = pool.token0 THEN r[2] ELSE r[1]
        IN  /\ e.ok /\ e.out[1] = e.out[2]
            /\ e.side = "buy" => IsAmountOut(e.out[2], a, rSafe, rTest)
            /\ e.side = "sell" =>
                  /\ hpLog[Len(hpLog)].side = "buy" /\ hpLog[Len(hpLog)].idx = e.idx
                  /\ hpOut = hpLog[Len(hpLog)].out
                  /\ IsAmountOut(hpOut[2], a, rSafe - a, rTest + hpOut[2])
                  /\ IsAmountOut(e.out[2], hpOut[2], rTest, rSafe)
                  /\ e.out[2] < a

----------------------------------------------------------------------------
(* SpecTriangle: simulate_triangular_arbitrage (arbitrage.rs:20-79) on the   *)
(* cycle USDT -> WETH -> DAI -> USDT over pools whose prices agree, with     *)
(* amounts of their real magnitude                                           *)

\* the reserves of P2 (USDT/WETH), P4 (DAI/WETH) and P5 (DAI/USDT) when pu USDT,
\* pw WETH and pd DAI are worth the same and the pools are k1, k2, k3 such
\* units deep
TriangleChain(pu, pw, pd, k1, k2, k3) ==
    [BaseChain EXCEPT !.res["P2"] = <<pu * k1, pw * k1>>,
                      !.res["P4"] = <<pd * k2, pw * k2>>,
                      !.res["P5"] = <<pd * k3, pu * k3>>]

TriangleChains ==
    {TriangleChain(1, 1, 1, k1, k2, k3) : k1, k2, k3 \in {10000000, 1000000000}}
    \cup {TriangleChain(2000, 1, 2000, k1, k2, k3) : k1, k2, k3 \in {100000, 1000000}}

\* USDT -> WETH -> DAI -> USDT and the same cycle walked the other way
TrianglePaths ==
    { ArbPath(<<"P2", "P4", "P5">>, <<TRUE, FALSE, TRUE>>),
      ArbPath(<<"P5", "P4", "P2">>, <<FALSE, TRUE, FALSE>>) }

\* the product of the three prices around the cycle is one
EqualImpliedPrices ==
    LET a == WideMul(WideMul(Digits(chain.res["P2"][2]), Digits(chain.res["P4"][1])),
                     Digits(chain.res["P5"][2]))
        b == WideMul(WideMul(Digits(chain.res["P2"][1]), Digits(chain.res["P4"][2])),
                     Digits(chain.res["P5"][1]))
    IN  WideLeq(a, b) /\ WideLeq(b, a)

InitTriangle ==
    /\ chain \in TriangleChains
    /\ safe_token_info = [t \in SafeTokenSet |-> Token(t)]
    /\ balance_slots = [t \in SafeTokenSet |-> chain.slot[t]]
    /\ arbIn \in [ paths : UNION {[1 .. n -> TrianglePaths] : n \in 1 .. MaxPaths},
                   amount_in : {1000000}, fork : BOOLEAN ]
    /\ arbPc = "loop"
    /\ arbIdx = 1
    /\ arbHop = 0
    /\ amount_out = 0
    /\ arbLog = <<>>
    /\ arbResults = <<>>
    /\ dbs = [i \in DbIds |-> IF i = 0 /\ arbIn.fork THEN ArbSnapshot ELSE EmptyCache]
    /\ live = IF arbIn.fork THEN {0} ELSE {}
    /\ hdb = [h \in Harness |-> NoDb]
    /\ snap = IF arbIn.fork THEN 0 ELSE NoDb
    /\ snapCache = IF arbIn.fork THEN ArbSnapshot ELSE EmptyCache
    /\ snapView = EmptyCache
    /\ lastOp = [op |-> "new", h |-> "A", dirty |-> FALSE]
    /\ steps = 0
    /\ SandwichIdle
    /\ EventIdle
    /\ HoneyIdle
    /\ SetupIdle
    /\ BusIdle
    /\ ProxyIdle
    /\ EnvIdle

\* (amount_out.as_u64() as i128) - (amount_in.as_u64() as i128) with as_u64 at
\* its 64 bits: every amount of this specification is below 2^31
TriangleProfit(out_amount, in_amount, log) ==
    [ok |-> TRUE, profit |-> out_amount - in_amount, err |-> "none", log |-> log]

\* the profit after the last hop
TriFinish ==
    /\ arbPc = "hops"
    /\ arbHop = ArbOf(arbIdx).path.nhop
    /\ arbResults' = Append(arbResults,
                            TriangleProfit(amount_out, ArbOf(arbIdx).amount_in, arbLog))
    /\ arbPc' = "loop"
    /\ arbIdx' = arbIdx + 1
    /\ UNCHANGED <<arbFrame, dbs, live, hdb, arbHop, amount_out, arbLog>>

NextTriangle == ArbStart \/ ArbHop \/ TriFinish \/ ArbDone

SpecTriangle == InitTriangle /\ [][NextTriangle]_vars

\* C22: on three constant-product pools with equal implied prices forming the
\* cycle USDT -> WETH -> DAI -> USDT, simulate_triangular_arbitrage with
\* amount_in = 10^6 returns a profit p with -30 < p <= 0.
C22_EquilibriumProfit ==
    EqualImpliedPrices =>
        \A i \in 1 .. Len(arbResults) :
            /\ arbResults[i].ok
            /\ -30 < arbResults[i].profit
            /\ arbResults[i].profit <= 0

\* C22 as the pools compute it: the walk succeeds and loses at least the three
\* 0.3% fees, 10^6 * (1 - 0.997^3) rounded against the trader, so the profit p
\* has -10^6 < p <= -8974 and is never positive.
C22_EquilibriumFeeLoss ==
    EqualImpliedPrices =>
        \A i \in 1 .. Len(arbResults) :
            /\ arbResults[i].ok
            /\ Len(arbResults[i].log) = 3
            /\ arbResults[i].profit = arbResults[i].log[3].out[2] - 1000000
            /\ -1000000 < arbResults[i].profit
            /\ arbResults[i].profit <= -8974

\* the cycle over three pools of 10^9 units a side: 10^6 USDT buy 996006 WETH,
\* these 992032 DAI, these 988078 USDT
C22_Witness ==
    /\ EqualImpliedPrices
    /\ \E i \in 1 .. Len(arbResults) :
          /\ arbIn.paths[i] = ArbPath(<<"P2", "P4", "P5">>, <<TRUE, FALSE, TRUE>>)
          /\ arbResults[i].ok
          /\ arbResults[i].log[1].out = <<996006, 996006>>
          /\ arbResults[i].log[2].out = <<992032, 992032>>
          /\ arbResults[i].log[3].out = <<988078, 988078>>
          /\ arbResults[i].profit = -11922


\* C23: every Token the filter holds, in safe_token_info or in token_info,
\* fetched by get_token_info or loaded from the cache, has decimals <= 36.
C23_DecimalsBound ==
    /\ \A t \in DOMAIN safe_token_info : safe_token_info[t].decimals <= 36
    /\ \A t \in DOMAIN token_info : token_info[t].decimals <= 36


\* C24: if the swap of hop n of a path fails, simulate_triangular_arbitrage
\* executes no later hop and returns an error without any profit value.
C24_HopFailurePropagates ==
    [][ /\ (arbLog' # arbLog /\ arbLog' # <<>> /\ ~arbLog'[Len(arbLog')].ok) =>
              /\ Len(arbResults') = Len(arbResults) + 1
              /\ LET r == arbResults'[Len(arbResults')]
                 IN  /\ ~r.ok
                     /\ r.err # "none"
                     /\ r.profit = 0
                     /\ r.log = arbLog'
              /\ arbPc' = "loop"
              /\ arbIdx' = arbIdx + 1
        /\ (arbLog # <<>> /\ ~arbLog[Len(arbLog)].ok) =>
              arbLog' = arbLog \/ arbLog' = <<>>
      ]_vars

\* the second hop of a three-hop path failed: the call returned the error with
\* two swaps in its log, and the next path was evaluated
C24_Witness ==
    /\ Len(arbResults) = 2
    /\ arbIn.paths[1].nhop = 3
    /\ ~arbResults[1].ok
    /\ Len(arbResults[1].log) = 2
    /\ arbResults[1].log[1].ok
    /\ ~arbResults[1].log[2].ok


----------------------------------------------------------------------------
(* SpecCache: filter_tokens (honeypot.rs:112-269) started on cache files    *)
(* that are absent or hold rows that do not parse                           *)

InitCache == InitHoneypotWith({HoneyChain}, CorruptCaches)

SpecCache == InitCache /\ [][NextHoneypot]_vars

\* a row of the file is not a token row
CorruptTokenFile == \E row \in Range(cacheFiles.tokens) : ~ParseableToken(row)

\* a row of the file is not an address
CorruptHoneypotFile == \E row \in Range(cacheFiles.honeypot) : ~ParseableAddress(row)

\* C25: cache files are read best-effort: when a cache file is absent the set
\* starts empty, and when a file holds a row that cannot be parsed
\* filter_tokens discards that cache, goes on to probe with an empty set and
\* rewrites the file at the end of the pass.
C25_BestEffortCache ==
    /\ hpPc # "panicked"
    /\ (hpPc = "loop" /\ hpIdx = 1 /\ hpLog = <<>>) =>
          /\ (cacheFiles.tokens = <<>> \/ CorruptTokenFile) => token_info = <<>>
          /\ (cacheFiles.honeypot = <<>> \/ CorruptHoneypotFile) => honeypot = <<>>


\* C26: once get_implementation has returned, with a winner, with None or with
\* an error, none of the four storage reads it started is still running.
C26_LosersCancelled ==
    prRet.kind # "pending" => Range(prDone) = ProxySlots


\* a step that logs a buy swapped the notional (weth atomic units when the safe
\* leg is WETH, 10000 whole tokens otherwise) out of a balance that was exactly
\* the notional: a buy that went through leaves the simulator no safe token
\* and moved the notional into the pool, a buy that failed leaves the notional
BuysNotional(weth) ==
    (Len(hpLog') > Len(hpLog) /\ hpLog'[Len(hpLog')].side = "buy") =>
        LET e == hpLog'[Len(hpLog')]
            pool == hpIn[hpIdx]
            safe_token == IF pool.token0 \in SafeTokenSet THEN pool.token0 ELSE pool.token1
            a == IF safe_token = "WETH" THEN weth
                 ELSE 10000 * Pow10(safe_token_info[safe_token].decimals)
            cell == <<safe_token, BalKey("simulator", balance_slots[safe_token])>>
            side == IF safe_token = pool.token0 THEN 1 ELSE 2
        IN  /\ e.ok => /\ ReadStor(dbs'[hdb["A"]], cell) = 0
                       /\ chain.tax[safe_token] = 0 =>
                             ReadRes(dbs'[hdb["A"]], pool.address)[side]
                               = ReadRes(dbs[hdb["A"]], pool.address)[side] + a
            /\ ~e.ok => ReadStor(dbs'[hdb["A"]], cell) = a

\* C27: for each probe the buy amount is 0.1 * 10^18 when the safe leg is WETH
\* (a tenth of 10^decimals) and 10,000 * 10^decimals when it is USDT, USDC or
\* DAI, and immediately before the buy the simulator's balance of the safe
\* token is overwritten to exactly that notional, whatever balance earlier
\* probes left behind.
C27_ProbeNotional ==
    [][BuysNotional(Pow10(safe_token_info["WETH"].decimals) \div 10)]_vars

\* C27 with the notional of the code: 20 * 10^decimals when the safe leg is
\* WETH, 10,000 * 10^decimals when it is USDT, USDC or DAI; the balance is
\* overwritten to exactly that notional before the buy.
C27_ProbeNotionalTwenty ==
    [][BuysNotional(20 * Pow10(safe_token_info["WETH"].decimals))]_vars

\* the probe of TKA/WETH sold its TKA back for WETH, and the buy of the next
\* WETH pool has just swapped 200 out of a balance reset to 200
C27_Witness ==
    /\ hpPc = "sell"
    /\ Len(hpLog) = 3
    /\ hpLog[2].side = "sell" /\ hpLog[2].ok /\ hpLog[2].out[2] > 0
    /\ hpLog[3].side = "buy" /\ hpLog[3].ok
    /\ hpIn[hpLog[2].idx].token1 = "WETH"
    /\ hpIn[hpIdx].token1 = "WETH"
    /\ ReadStor(dbs[hdb["A"]], <<"WETH", BalKey("simulator", balance_slots["WETH"])>>) = 0
    /\ ReadRes(dbs[hdb["A"]], hpIn[hpIdx].address)[2] = 1200


\* C28: filter_tokens probes exactly the pools in which exactly one of token0
\* and token1 is a resolved safe token: at a pool with two safe legs or with
\* none no balance is seeded, no swap is executed and no verdict is recorded;
\* a pool with one safe leg is probed unless its other token has a verdict
\* already; the probed test token is always the non-safe leg.
C28_OneSafeLeg ==
    [][ (hpPc \in {"loop", "sell"} /\ hpIdx <= Len(hpIn)) =>
          LET pool == hpIn[hpIdx]
              s0 == pool.token0 \in DOMAIN safe_token_info
              s1 == pool.token1 \in DOMAIN safe_token_info
              test == IF s0 THEN pool.token1 ELSE pool.token0
              known == DOMAIN token_info \cup DOMAIN honeypot
              known1 == DOMAIN token_info' \cup DOMAIN honeypot'
          IN  /\ Len(hpLog') > Len(hpLog) =>
                    /\ s0 # s1
                    /\ hpLog'[Len(hpLog')].idx = hpIdx
                    /\ hpLog'[Len(hpLog')].token = test
                    /\ test \notin DOMAIN safe_token_info
              /\ s0 = s1 =>
                    /\ dbs' = dbs /\ hpLog' = hpLog
                    /\ token_info' = token_info /\ honeypot' = honeypot
                    /\ hpIdx' = hpIdx + 1
              /\ (hpPc = "loop" /\ s0 # s1 /\ test \notin known) =>
                    /\ Len(hpLog') = Len(hpLog) + 1
                    /\ hpLog'[Len(hpLog')].side = "buy"
              /\ known1 \subseteq known \cup {test}
              /\ known1 # known => s0 # s1
      ]_vars

\* a pass over USDT/WETH, TKA/TKB and TKA/WETH has skipped the first two pools
\* without a swap or a verdict and has probed TKA in the third
C28_Witness ==
    /\ hpPc = "done"
    /\ Len(hpIn) = 3
    /\ hpIn[1].address = "P2" /\ hpIn[2].address = "P6" /\ hpIn[3].address = "P0"
    /\ Len(hpLog) = 2
    /\ hpLog[1].idx = 3 /\ hpLog[2].idx = 3
    /\ hpLog[1].token = "TKA"
    /\ DOMAIN token_info \cup DOMAIN honeypot = {"TKA"}


\* C29: a call executed with commit = false (staticcall, token_balance_of,
\* v2_pool_get_reserves, v2_simulate_swap with commit = false) changes no
\* account and no storage cell of the writable cache, so a committed call has
\* the result the read-only calls before it showed; a call with commit = true
\* writes its state changes to the writable cache of its harness, and only
\* there.
C29_ReadOnlyCalls ==
    [][ /\ (lastOp'.op = "staticcall" /\ steps' = steps + 1) => dbs' = dbs
        /\ \A h \in Harness :
              LET db == dbs[hdb[h]]
              IN  /\ \A t \in Tokens : token_balance_of(db, t).db = db
                  /\ \A p \in Pools : v2_pool_get_reserves(db, p).db = db
        /\ (lastOp'.op = "call" /\ steps' = steps + 1) =>
              LET id == hdb[lastOp'.h]
                  db == dbs[id]
                  seen == v2_simulate_swap(db, 100, "P0", "WETH", "TKA", FALSE)
                  r == ReadRes(db, "P0")
              IN  /\ seen.db = db
                  /\ \A i \in DbIds \ {id} : dbs'[i] = dbs[i]
                  /\ seen.res.ok =>
                        /\ ReadRes(dbs'[id], "P0") = <<r[1] - seen.res.out[1], r[2] + 100>>
                        /\ ReadStor(dbs'[id], BalCell("WETH")) = ReadStor(db, BalCell("WETH")) - 100
                        /\ ReadStor(dbs'[id], BalCell("TKA"))
                             = ReadStor(db, BalCell("TKA")) + seen.res.out[2]
                  /\ ~seen.res.ok =>
                        View(dbs'[id]) = View(db)
      ]_vars

\* a swap that would go through was run as a staticcall on a harness whose
\* cache holds the effects of an earlier committed swap
C29_Witness ==
    /\ lastOp.op = "staticcall"
    /\ ReadRes(dbs[hdb[lastOp.h]], "P0") # chain.res["P0"]
    /\ v2_simulate_swap(dbs[hdb[lastOp.h]], 100, "P0", "WETH", "TKA", FALSE).res.ok


\* C30: in SandwichSimulator::simulate the ETH seeding, the deployment of the
\* simulator, the seeding of the safe token and the three reads (balanceOf of
\* the simulator on token0 and token1, getReserves of the pool) of every
\* candidate precede the snapshot, and the snapshot holds the cells those
\* reads fetched.
C30_PreStateAssembly ==
    (swIn.fork /\ snap # NoDb) =>
        /\ swTodo = {}
        /\ dbs[snap].acct["owner"] # NoAcct
        /\ dbs[snap].acct["simulator"] # NoAcct
        /\ \A i \in 1 .. Len(sandwiches) :
              LET s == sandwiches[i]
                  pool == s.target_pool
              IN  /\ dbs[snap].stor[<<s.target_token.address,
                                      BalKey("simulator", s.balance_slot)>>]
                        = 10000 * Pow10(s.target_token.decimals)
                  /\ dbs[snap].stor[BalCell(pool.token0)] # Absent
                  /\ dbs[snap].stor[BalCell(pool.token1)] # Absent
                  /\ dbs[snap].res[pool.address] # NoRes



-----------------------------------------------------------------------------
(* The storage key of a token balance *)

\* a prestate frame in which the token read exactly the cell of (account, slot)
OneKeyFrame(token, account, slot) ==
    [kind |-> "default", accounts |-> {token, account}, has_storage |-> TRUE,
     storage |-> {BalKey(account, slot)}]

\* the cell set_token_balance(account, token, _, slot, _) addresses is the cell
\* find_balance_slot matches for owner = account at i = slot, and the cell
\* get_touched_pools reads for pool = account
SameBalanceKey(account, token, slot) ==
    LET cell == <<token, BalKey(account, slot)>>
        found == find_balance_slot(OneKeyFrame(token, account, slot), token, account)
    IN  /\ found = [status |-> "ok", found |-> TRUE, slot |-> slot]
        /\ \A i \in 0 .. (SlotProbes - 1) :
               BalKey(account, i) \in OneKeyFrame(token, account, slot).storage <=> i = slot
        /\ PoolCell(token, account, slot) = cell

\* what one set_token_balance(account = simulator, token, decimals, slot, 50)
\* on harness h does to the cache of h and to the caches of the others
SetTokenBalanceEffect(h, token, slot) ==
    LET cell == <<token, BalKey("simulator", slot)>>
        before == dbs[hdb[h]]
        after == dbs'[hdb[h]]
        amount == 50 * Pow10(chain.decimals[token])
    IN  /\ after.stor[cell] = amount
        /\ \A c \in Cells \ {cell} : after.stor[c] = before.stor[c]
        /\ after.acct = before.acct
        /\ after.res = before.res
        /\ \A c \in Cells \ {cell} : View(after).stor[c] = View(before).stor[c]
        /\ View(after).acct = View(before).acct
        /\ View(after).res = View(before).res
        /\ \A i \in DbIds \ {hdb[h]} : dbs'[i] = dbs[i]
        /\ SameBalanceKey("simulator", token, slot)
        /\ \A p \in Pools : SameBalanceKey(p, token, slot)
        /\ slot = chain.slot[token] => token_balance_of(after, token).res.out = amount

\* C31: set_token_balance(account, token, decimals, slot, amount) overwrites
\* exactly one cell, storage[token][keccak256(abi_encode(account, slot))], with
\* amount * 10^decimals and leaves every other cell and every account as it
\* was; the key is the one find_balance_slot matches for owner = account and
\* i = slot and the one get_touched_pools reads for pool = account, so a
\* balance seeded at the token's balance slot is the balance the token reports
C31_BalanceKey ==
    [][\A h \in Harness, slot \in Slots :
          HSetTokenBalanceAt(h, "WETH", slot) => SetTokenBalanceEffect(h, "WETH", slot)]_vars

\* a harness whose WETH balance was seeded at the balance slot of WETH, over a
\* stale cell left at the neighbouring slot by an earlier seeding
C31_Witness ==
    /\ dbs[hdb["A"]].stor[BalCell("WETH")] = 50 * Pow10(chain.decimals["WETH"])
    /\ token_balance_of(dbs[hdb["A"]], "WETH").res.out = 50 * Pow10(chain.decimals["WETH"])
    /\ \E s \in Slots \ {chain.slot["WETH"]} :
           dbs[hdb["A"]].stor[<<"WETH", BalKey("simulator", s)>>] = 50 * Pow10(chain.decimals["WETH"])
    /\ lastOp.op = "mutate"


-----------------------------------------------------------------------------
(* SpecEnv: the transaction environment of one EvmSimulator through the    *)
(* swaps, reads and the pending transaction it is asked to execute         *)
(* (simulator.rs:96-171, sandwich.rs:137-178)                              *)

MaxEnvOps == 3      \* transactions one simulator executes per behaviour of SpecEnv

\* a new simulator after the seeding of simulate_sandwich_bundle
InitEnv ==
    /\ chain = BaseChain
    /\ env = DefaultEnv
    /\ envTx \in MempoolTxs
    /\ envRan = <<>>
    /\ dbs = [i \in DbIds |->
                IF i = 0
                THEN set_token_balance(deploy_simulator(set_eth_balance(EmptyCache, 10000)),
                                       "simulator", "WETH", chain.decimals["WETH"],
                                       chain.slot["WETH"], 10000)
                ELSE EmptyCache]
    /\ live = {0}
    /\ hdb = [h \in Harness |-> IF h = "A" THEN 0 ELSE NoDb]
    /\ snap = NoDb
    /\ snapCache = EmptyCache
    /\ snapView = EmptyCache
    /\ lastOp = [op |-> "new", h |-> "A", dirty |-> FALSE]
    /\ steps = 0
    /\ FilterIdle
    /\ SandwichIdle
    /\ ArbIdle
    /\ EventIdle
    /\ HoneyIdle
    /\ SetupIdle
    /\ BusIdle
    /\ ProxyIdle

envFrame == <<chain, live, hdb, snap, snapCache, snapView, lastOp, steps, filterVars,
              sandwichVars, arbVars, eventVars, honeyVars, setupVars, busVars, proxyVars, envTx>>

\* what envRan keeps of a transaction: the environment it ran under and its result
Ran(op, e, res) == [op |-> op, env |-> e, ok |-> res.ok]

\* v2_simulate_swap(amount, P0, WETH, TKA, commit) or token_balance_of(WETH)
EnvCall(op) ==
    /\ Len(envRan) < MaxEnvOps
    /\ LET db == dbs[hdb["A"]]
           tx == IF op = "staticcall"
                 THEN Tx("owner", "WETH", PendingOther("balanceOf"), 0, 0)
                 ELSE Tx("owner", "simulator", PendingSwap("P0", "WETH", 100, 0), 0, CallGasLimit)
           r == IF op = "staticcall" THEN token_balance_of(db, "WETH")
                ELSE v2_simulate_swap(db, 100, "P0", "WETH", "TKA", TRUE)
       IN  /\ env' = call_env(env, tx)
           /\ dbs' = [dbs EXCEPT ![hdb["A"]] = r.db]
           /\ envRan' = Append(envRan, Ran(op, env', r.res))
    /\ UNCHANGED envFrame

\* run_pending_tx(&tx)
EnvRunPendingTx ==
    /\ Len(envRan) < MaxEnvOps
    /\ LET r == run_pending_tx(dbs[hdb["A"]], envTx.input) IN
        /\ env' = pending_tx_env(env, envTx)
        /\ dbs' = [dbs EXCEPT ![hdb["A"]] = r.db]
        /\ envRan' = Append(envRan, Ran("run_pending_tx", env', r.res))
    /\ UNCHANGED envFrame

NextEnv == EnvCall("call") \/ EnvCall("staticcall") \/ EnvRunPendingTx

SpecEnv == InitEnv /\ [][NextEnv]_vars

\* the gas price the claim assigns to a mempool transaction
ClaimedGasPrice(tx) ==
    IF tx.transaction_type \in {0, Absent} THEN OrZero(tx.gas_price)
    ELSE OrZero(tx.max_fee_per_gas)

\* C32: run_pending_tx takes caller, destination, value, data, chain id and
\* gas limit from the mempool transaction; for type 0 or an absent type the gas
\* price is tx.gas_price (0 when absent), for every other type it is
\* tx.max_fee_per_gas (0 when absent) and the priority fee is
\* tx.max_priority_fee_per_gas; the transaction is then committed, and a
\* revert or halt is returned as an error
C32_PendingTxEnv ==
    [][EnvRunPendingTx =>
         LET exec == PendingExec(dbs[hdb["A"]], envTx.input)
             ran == envRan'[Len(envRan')]
         IN  /\ env'.caller = envTx.from
             /\ env'.transact_to = IF envTx.to = NoneAddr THEN ZeroAddr ELSE envTx.to
             /\ env'.value = envTx.value
             /\ env'.data = envTx.input
             /\ env'.chain_id = envTx.chain_id
             /\ env'.gas_limit = envTx.gas
             /\ env'.gas_price = ClaimedGasPrice(envTx)
             /\ envTx.transaction_type \notin {0, Absent} =>
                    env'.gas_priority_fee = envTx.max_priority_fee_per_gas
             /\ ran.env = env'
             /\ ran.ok = (exec.status = "ok")
             /\ exec.status = "ok" =>
                    dbs'[hdb["A"]] = Overlay(Overlay(dbs[hdb["A"]], exec.loads), exec.writes)
             /\ exec.status # "ok" => dbs'[hdb["A"]] = Overlay(dbs[hdb["A"]], exec.loads)]_vars

\* a type-2 transaction with both prices present has run and was committed,
\* priced by its max fee
C32_Witness ==
    /\ envRan # <<>>
    /\ envRan[Len(envRan)].op = "run_pending_tx"
    /\ envRan[Len(envRan)].ok
    /\ envTx.transaction_type = 2
    /\ envTx.gas_price = 5
    /\ envTx.max_fee_per_gas = 7
    /\ env.gas_price = 7
    /\ env.gas_priority_fee = 2
    /\ dbs[hdb["A"]].res["P0"] # NoRes


\* the fields of the environment a pending transaction sets and _call does not
PriceFields(e) ==
    [gas_price |-> e.gas_price, gas_priority_fee |-> e.gas_priority_fee, chain_id |-> e.chain_id]

\* C36: applying a pending transaction leaves no residue in the environment of
\* later swaps on the same simulator: the backrun swap executes under the gas
\* price, priority fee and chain id the frontrun swap executed under, and every
\* call / staticcall runs with gas limit 5,000,000 whatever its Tx says
C36_NoEnvResidue ==
    /\ \A i, k, j \in DOMAIN envRan :
           /\ i < k
           /\ k < j
           /\ envRan[i].op = "call"
           /\ envRan[k].op = "run_pending_tx"
           /\ envRan[j].op = "call"
           => PriceFields(envRan[j].env) = PriceFields(envRan[i].env)
    /\ \A i \in DOMAIN envRan :
           envRan[i].op \in {"call", "staticcall"} => envRan[i].env.gas_limit = CallGasLimit


\* what a Log or a Block event must leave alone: the handler's position, the
\* pool map, the token tables and every simulator
EventRest == <<evPc, verified_pools_map, filterVars, harnessVars, sandwichVars, arbVars>>

\* C33: a Log event is a no-op for event_handler: it leaves the current-block
\* context unchanged and triggers no trace and no simulation; a Block event
\* only replaces the current-block context and triggers no trace and no
\* simulation
C33_LogAndBlockEvents ==
    [][/\ ev'.kind = "Log" =>
            /\ new_block' = new_block
            /\ evOut' = [kind |-> "ignored"]
            /\ UNCHANGED EventRest
       /\ ev'.kind = "Block" =>
            /\ new_block' = ev'.block
            /\ evOut' = [kind |-> "block"]
            /\ UNCHANGED EventRest]_vars

\* a Log event was received while the context held the block of the last Block
\* event, and the handler is back at recv()
C33_Witness ==
    /\ ev.kind = "Log"
    /\ evOut = [kind |-> "ignored"]
    /\ new_block = lastBlock
    /\ new_block.block_number = 2
    /\ evPc = "recv"


-----------------------------------------------------------------------------
(* The pools kept after the filter pass (strategy.rs:169-185, main.rs:58-67) *)

TokenVerified(t) == t \in DOMAIN safe_token_info \/ t \in DOMAIN token_info

\* a pool is kept when one of its tokens is verified
verified_pools_either(pools) ==
    SelectSeq(pools, LAMBDA pool : TokenVerified(pool.token0) \/ TokenVerified(pool.token1))

\* pools.into_iter().filter(token0_verified && token1_verified).collect()
verified_pools(pools) ==
    SelectSeq(pools, LAMBDA pool : TokenVerified(pool.token0) /\ TokenVerified(pool.token1))

C35_SafeTokenHasSlot ==
    /\ DOMAIN safe_token_info \subseteq DOMAIN balance_slots
    /\ \A t \in DOMAIN safe_token_info :
          \E n \in 1 .. Len(suLog) :
              /\ suLog[n].token = t
              /\ suLog[n].res.found
              /\ balance_slots[t] = suLog[n].res.slot

\* setup returned with some safe tokens found and some not
C35_Witness ==
    /\ suPc = "done"
    /\ DOMAIN safe_token_info # {}
    /\ DOMAIN safe_token_info # SafeTokenSet
    /\ DOMAIN balance_slots = DOMAIN safe_token_info


\* C37: the result of get_touched_pools is a function of the trace,
\* verified_pools_map, safe_token_info and balance_slots alone: it is the same
\* for every order in which the safe tokens are iterated, also for a pool whose
\* two tokens are safe tokens and whose balances of both grow in the transaction
C37_OrderIndependence ==
    (ev.kind = "PendingTx" /\ evOut.traced) =>
        \A order \in SafeTokenOrders :
            LET r == get_touched_pools(ev.tx.trace, verified_pools_map, order)
            IN  r.status = evOut.status /\ r.map = evOut.map


-----------------------------------------------------------------------------
(* SpecProfit: simulate on a market where the victim's purchase is large   *)
(* against the pool, so that the backrun returns more of the safe token    *)
(* than 64 bits hold (sandwich.rs:155-185)                                 *)

\* one whole WETH is 10^4 units here, below U64Max
ProfitChains == {[BaseChain EXCEPT !.decimals["WETH"] = 4]}

ProfitTxs ==
    { PendingSwap("P0", "WETH", 1000000, 0),
      PendingSwap("P0", "WETH", 200, 0),
      PendingOther("revert") }

InitProfit == InitSandwichWith(ProfitChains, ProfitTxs)

SpecProfit == InitProfit /\ [][NextSandwich]_vars

\* C38: for every amount_in and every final actual output, the profit of a
\* bundle whose swaps went through is the exact difference output - amount_in;
\* narrowing either amount to 64 bits never truncates, wraps or aborts
C38_ExactProfit ==
    /\ swPc # "panicked"
    /\ \A k \in 1 .. Len(results) :
          LET r == results[k] IN
          (Len(r.log) = 3 /\ r.log[1].ok /\ r.log[3].ok) =>
              /\ r.ok
              /\ r.profit = r.log[3].out[2] - sandwiches[k].amount_in


\* C39: the base-fee gate takes a pending transaction without max_fee_per_gas
\* (a legacy transaction) as having max fee 0: it is traced if and only if the
\* base_fee of the current block is 0, whatever its gas_price
C39_LegacyGate ==
    (ev.kind = "PendingTx" /\ ev.tx.max_fee_per_gas = NoneFee) =>
        /\ evOut.traced <=> lastBlock.base_fee = 0
        /\ ~evOut.traced => evOut.bundles = <<>>

\* a legacy transaction whose gas_price is above the base fee was discarded
C39_Witness ==
    /\ ev.kind = "PendingTx"
    /\ ev.tx.max_fee_per_gas = NoneFee
    /\ ev.tx.gas_price = 5
    /\ lastBlock.base_fee = 3
    /\ ~evOut.traced

====
